---- MODULE Spec2Model ----
(***************************************************************************)
(* Model of the rnm process supervisor (src/src/rnm/process/supervisor.py) *)
(* One action is one turn of the asyncio event loop: the code a task runs  *)
(* between two suspension points (await of a spawn, of a process exit, of  *)
(* a sleep).                                                               *)
(***************************************************************************)
EXTENDS Integers, Sequences, FiniteSets, TLC

VARIABLES
    services,    \* the descriptor list build_services hands to start_services
    config,      \* self.config.process (ProcessConfig)
    running,     \* self.running
    order,       \* list(self.processes.keys()): insertion order of the dict
    processes,   \* self.processes: name -> ProcessState
    procs,       \* name -> the OS processes spawned for it, oldest first
    starter,     \* the start_services task
    stopper,     \* the stop_all task
    health,      \* the _health_check_loop task (self._health_task)
    now,         \* time.time()
    emitted,     \* the events _emit sent during the last turn, in order
    callbacks,   \* self._event_callbacks
    delivered,   \* the calls _emit made to callbacks during the last turn
    status,      \* <<the dict get_status returned>> in the last turn, or <<>>
    pid_file,    \* PID_FILE: whether it exists and the text it holds
    instances,   \* the rnm processes on the host: pid -> position in `start`
    interfaces,  \* config.interfaces.items(): the interfaces in dict order
    headless     \* run_headless: its position, shutdown_event, signals handled

vars == <<services, config, running, order, processes, procs, starter, stopper,
          health, now, emitted, callbacks, delivered, status, pid_file,
          instances, interfaces, headless>>

(***************************************************************************)
(* Bounds of the model                                                     *)
(***************************************************************************)
MaxServices == 3     \* longest descriptor list
MaxDeps == 2         \* longest depends_on list
Names == {"a", "b", "c"}

Range(s) == {s[i] : i \in 1..Len(s)}

Injective(s) == \A i, j \in 1..Len(s) : s[i] = s[j] => i = j

SeqsUpTo(S, n) == UNION {[1..k -> S] : k \in 0..n}

(***************************************************************************)
(* ServiceDefinition: name, depends_on, health_check (present or not).     *)
(* command, working_dir, env and config_files do not influence the         *)
(* supervisor's control flow.                                              *)
(***************************************************************************)
ServiceDefinition(n, deps, hc) == [name |-> n, depends_on |-> deps, health_check |-> hc]

DepLists == {d \in SeqsUpTo(Names, MaxDeps) : Injective(d)}

NameOf(s) == s.name

NamesOf(list) == [i \in 1..Len(list) |-> list[i].name]

(***************************************************************************)
(* Supervisor._dependency_sort                                             *)
(***************************************************************************)
\* by_name = {s.name: s for s in services}; by_name.get(name): a later entry
\* of the list overwrites an earlier one with the same name.
by_name_has(svcs, name) == \E i \in 1..Len(svcs) : svcs[i].name = name

by_name_get(svcs, name) ==
    LET idx == {i \in 1..Len(svcs) : svcs[i].name = name}
    IN  svcs[CHOOSE i \in idx : \A j \in idx : j <= i]

RECURSIVE visit(_, _, _)
RECURSIVE visit_deps(_, _, _, _)

\* for dep in svc.depends_on: visit(dep)
visit_deps(svcs, deps, i, st) ==
    IF i > Len(deps) THEN st
    ELSE visit_deps(svcs, deps, i + 1, visit(svcs, deps[i], st))

\* visit with result.append(svc) moved before the loop over depends_on
visit_preorder(svcs, name, st) ==
    IF name \in st.visited THEN st
    ELSE LET st1 == [st EXCEPT !.visited = @ \cup {name}]
             svc == by_name_get(svcs, name)
         IN  IF ~by_name_has(svcs, name) THEN st1
             ELSE visit_deps(svcs, svc.depends_on, 1,
                             [st1 EXCEPT !.result = Append(@, svc)])

\* def visit(name): st is (visited, result)
visit(svcs, name, st) ==
    IF name \in st.visited THEN st
    ELSE LET st1 == [st EXCEPT !.visited = @ \cup {name}]
             svc == by_name_get(svcs, name)
         IN  IF ~by_name_has(svcs, name) THEN st1
             ELSE LET st2 == visit_deps(svcs, svc.depends_on, 1, st1)
                  IN  [st2 EXCEPT !.result = Append(@, svc)]

\* The loop over services cut short after its first pass
visit_all_first_only(svcs, i, st) ==
    IF svcs = <<>> THEN st ELSE visit(svcs, svcs[1].name, st)

RECURSIVE visit_all(_, _, _)
\* for s in services: visit(s.name)
visit_all(svcs, i, st) ==
    IF i > Len(svcs) THEN st
    ELSE visit_all(svcs, i + 1, visit(svcs, svcs[i].name, st))

\* _dependency_sort returning the services in the order given
dependency_sort_unsorted(svcs) == svcs

dependency_sort(svcs) ==
    visit_all(svcs, 1, [visited |-> {}, result |-> <<>>]).result

(***************************************************************************)
(* Configuration and clock                                                 *)
(***************************************************************************)
Horizon == 2         \* clock ticks the model follows
MaxRelaunches == 2   \* relaunches by the restart policy, all services together

\* time.time() when the supervisor is constructed: later than any restart
\* window of the model, as the epoch clock is in the program.
T0 == Horizon + 1
MaxTime == T0 + Horizon

Policies == {"always", "on-failure", "never"}

\* ProcessConfig: restart_policy, restart_delay, max_restarts, restart_window
ProcessConfigs ==
    [restart_policy : Policies,
     restart_delay : {0, 1},
     max_restarts : {0, 2},
     restart_window : {0, Horizon}]

(***************************************************************************)
(* ProcessState and the OS processes                                       *)
(***************************************************************************)
\* ProcessState(service=svc): process is an index into procs[name], 0 = None.
\* start_time and last_health_check are left out: start_time is read by
\* get_status only, for the uptime, and last_health_check is never written.
ProcessState(svc) ==
    [service |-> svc, process |-> 0, state |-> "stopped",
     restart_count |-> 0, last_restart |-> 0]

\* An asyncio.subprocess.Process and the _watch_process task created for it.
\* alive: returncode is None. returncode: the value ps.process.wait() hands to
\* the watcher, kept until the watcher has read it (nothing else reads it).
\* signal: the last signal sent to the live process.
\* watch: "wait"  the watcher awaits ps.process.wait()
\*        "delay" it sleeps restart_delay (until wake)
\*        "spawn" it awaits create_subprocess_exec in _start_service
\*        "done"  it returned
NewProcess ==
    [alive |-> TRUE, returncode |-> 0, signal |-> "none", watch |-> "wait",
     wake |-> 0]

Alive(p) == p.alive

\* ps.process and ps.process.returncode is None
HasLiveProcess(ps, pr) ==
    /\ ps.process # 0
    /\ Alive(pr[ps.process])

Ev(kind, name, detail) == <<kind, name, detail>>

(***************************************************************************)
(* on_event and _emit                                                      *)
(***************************************************************************)
MaxObservers == 2

\* A registered callable: who it is and whether calling it raises
Callbacks == [id : 1..MaxObservers, raises : BOOLEAN]

RECURSIVE emit_unprotected(_, _, _)
\* _emit without the try/except: the first callback that raises ends the loop
emit_unprotected(cbs, i, ev) ==
    IF i > Len(cbs) THEN <<>>
    ELSE IF cbs[i].raises THEN <<<<cbs[i], ev>>>>
    ELSE <<<<cbs[i], ev>>>> \o emit_unprotected(cbs, i + 1, ev)

RECURSIVE emit(_, _, _)
\* for cb in self._event_callbacks: try: cb(event, name, detail)
\* except Exception: pass
emit(cbs, i, ev) ==
    IF i > Len(cbs) THEN <<>>
    ELSE <<<<cbs[i], ev>>>> \o emit(cbs, i + 1, ev)

RECURSIVE emit_all(_, _, _)
\* The calls made for the events evs[j..], one _emit after the other
emit_all(cbs, evs, j) ==
    IF j > Len(evs) THEN <<>>
    ELSE emit(cbs, 1, evs[j]) \o emit_all(cbs, evs, j + 1)

\* What the _emit calls of a turn do to the callbacks: the list is only read
Deliver ==
    /\ delivered' = emit_all(callbacks, emitted', 1)
    /\ callbacks' = callbacks

\* self._event_callbacks.append(callback)
on_event(cb) ==
    /\ Len(callbacks) < MaxObservers
    /\ callbacks' = Append(callbacks, cb)
    /\ emitted' = <<>>
    /\ delivered' = <<>>
    /\ UNCHANGED <<services, config, running, order, processes, procs, starter,
                   stopper, health, now>>
    /\ status' = <<>>
    /\ UNCHANGED <<pid_file, instances, interfaces, headless>>

\* A process record nothing refers to any more: its watcher returned and
\* ps.process is a later process.
Gone == [alive |-> FALSE, returncode |-> 0, signal |-> "none", watch |-> "done",
         wake |-> 0]

RECURSIVE SumLen(_, _)
SumLen(PR, S) ==
    IF S = {} THEN 0
    ELSE LET n == CHOOSE x \in S : TRUE
         IN  (IF Len(PR[n]) > 1 THEN Len(PR[n]) - 1 ELSE 0) + SumLen(PR, S \ {n})

\* Processes spawned so far by relaunches
Relaunches(PR) == SumLen(PR, DOMAIN PR)

Reverse(s) == [i \in 1..Len(s) |-> s[Len(s) + 1 - i]]

(***************************************************************************)
(* Restart policy: the tests of _watch_process                             *)
(***************************************************************************)
\* Every policy treated as "never"
policy_returns_always(rc) == TRUE

\* The test for "never" left out
policy_returns_on_clean_exit_only(rc) ==
    config.restart_policy = "on-failure" /\ rc = 0

\* The policy test without the returncode: "on-failure" treated as "always"
policy_returns_never_only(rc) == config.restart_policy = "never"

\* restart_policy == "never", or "on-failure" and returncode == 0: return
policy_returns(rc) ==
    \/ config.restart_policy = "never"
    \/ config.restart_policy = "on-failure" /\ rc = 0

\* The window test left out: the counter is reset at every exit
count_reset_always(ps) == 0

\* The reset of the counter left out
count_never_reset(ps) == ps.restart_count

\* if now - ps.last_restart > restart_window: ps.restart_count = 0
count_after_window(ps) ==
    IF now - ps.last_restart > config.restart_window THEN 0 ELSE ps.restart_count

\* The test max_r > 0 left out: 0 is a limit of no restarts
limit_reached_at_zero(count) == count >= config.max_restarts

\* The limit test with > for >=
limit_reached_late(count) ==
    config.max_restarts > 0 /\ count > config.max_restarts

\* The limit test left out
limit_reached_never(count) == FALSE

\* max_r > 0 and ps.restart_count >= max_r
limit_reached(count) ==
    config.max_restarts > 0 /\ count >= config.max_restarts

(***************************************************************************)
(* _start_service                                                          *)
(***************************************************************************)
\* ps.state = "starting"; _emit("state_change", name, "starting"); the task
\* then awaits create_subprocess_exec.
start_begin(P, name) == [P EXCEPT ![name].state = "starting"]

\* create_subprocess_exec returned: ps.process = the new process, state
\* "running"
spawn_ok(P, PR, name) ==
    [P EXCEPT ![name].process = Len(PR[name]) + 1,
              ![name].state = "running"]

\* The except clause left out: the service stays "starting"
spawn_fail_ignored(P, name) == P

\* create_subprocess_exec raised: state "failed"
spawn_fail(P, name) == [P EXCEPT ![name].state = "failed"]

(***************************************************************************)
(* start_services                                                          *)
(***************************************************************************)
\* self.processes[svc.name] = ProcessState(service=svc), then _start_service
\* up to its await.
Launch(ordered, i) ==
    LET svc == ordered[i]
        name == svc.name
        P1 == [n \in (DOMAIN processes) \cup {name} |->
                  IF n = name THEN ProcessState(svc) ELSE processes[n]]
    IN  /\ order' = IF name \in Range(order) THEN order ELSE Append(order, name)
        /\ processes' = start_begin(P1, name)
        /\ emitted' = <<Ev("state_change", name, "starting")>>
        /\ starter' = [pc |-> "spawn", ordered |-> ordered, idx |-> i]

\* asyncio.create_task(self._health_check_loop())
HealthCreated == [pc |-> "grace", pos |-> 0]

\* First turn of start_services: running, the sort, the first launch.
StartServicesCore ==
    /\ starter.pc = "idle"
    /\ running' = TRUE
    /\ LET ordered == dependency_sort(services)
       IN  IF ordered = <<>>
           THEN /\ starter' = [pc |-> "done", ordered |-> ordered, idx |-> 0]
                /\ health' = HealthCreated
                /\ emitted' = <<>>
                /\ UNCHANGED <<order, processes>>
           ELSE /\ Launch(ordered, 1)
                /\ UNCHANGED health
    /\ UNCHANGED <<services, config, procs, stopper, now>>
    /\ Deliver
    /\ status' = <<>>

\* start_services called on its own: nothing of run_headless changes
StartServices ==
    /\ StartServicesCore
    /\ UNCHANGED <<pid_file, instances, interfaces, headless>>

\* The spawn awaited by start_services returns or raises; start_services then
\* sleeps one second.
StarterSpawned(ok) ==
    /\ starter.pc = "spawn"
    /\ LET name == starter.ordered[starter.idx].name
       IN  IF ok
           THEN /\ processes' = spawn_ok(processes, procs, name)
                /\ procs' = [procs EXCEPT ![name] = Append(@, NewProcess)]
                /\ emitted' = <<Ev("state_change", name, "running")>>
           ELSE /\ processes' = spawn_fail(processes, name)
                /\ procs' = procs
                /\ emitted' = <<Ev("error", name, "spawn")>>
    /\ starter' = [starter EXCEPT !.pc = "sleep"]
    /\ UNCHANGED <<services, config, running, order, stopper, health, now>>
    /\ Deliver
    /\ status' = <<>>
    /\ UNCHANGED <<pid_file, instances, interfaces, headless>>

\* The pacing sleep is over: the next launch, or the health task at the end.
StarterWakeCore ==
    /\ starter.pc = "sleep"
    /\ IF starter.idx < Len(starter.ordered)
       THEN /\ Launch(starter.ordered, starter.idx + 1)
            /\ UNCHANGED health
       ELSE /\ starter' = [starter EXCEPT !.pc = "done"]
            /\ health' = HealthCreated
            /\ emitted' = <<>>
            /\ UNCHANGED <<order, processes>>
    /\ UNCHANGED <<services, config, running, procs, stopper, now>>
    /\ Deliver
    /\ status' = <<>>

\* start_services goes on, called on its own: nothing of run_headless changes
StarterWake ==
    /\ StarterWakeCore
    /\ UNCHANGED <<pid_file, instances, interfaces, headless>>

(***************************************************************************)
(* The OS: a process exits, the clock advances                             *)
(***************************************************************************)
ExitCodes(p) ==
    IF p.signal = "kill" THEN {-9}
    ELSE IF p.signal = "term" THEN {-15, 0}
    ELSE {0, 1}

ProcExit(n, k, rc) ==
    /\ Alive(procs[n][k])
    /\ rc \in ExitCodes(procs[n][k])
    /\ procs' = [procs EXCEPT ![n][k].alive = FALSE, ![n][k].returncode = rc,
                              ![n][k].signal = "none"]
    /\ emitted' = <<>>
    /\ UNCHANGED <<services, config, running, order, processes, starter, stopper,
                   health, now>>
    /\ Deliver
    /\ status' = <<>>
    /\ UNCHANGED <<pid_file, instances, interfaces, headless>>

\* The clock is read in two tests only: now - ps.last_restart > restart_window
\* and the end of the restart delay. A tick that changes neither is left out.
ClockObserved ==
    \/ \E n \in DOMAIN processes :
          /\ processes[n].last_restart > 0
          /\ now - processes[n].last_restart <= config.restart_window
    \/ \E n \in DOMAIN procs : \E k \in 1..Len(procs[n]) :
          procs[n][k].watch = "delay" /\ procs[n][k].wake > now

Tick ==
    /\ now < MaxTime
    /\ ClockObserved
    /\ now' = now + 1
    /\ emitted' = <<>>
    /\ UNCHANGED <<services, config, running, order, processes, procs, starter,
                   stopper, health>>
    /\ Deliver
    /\ status' = <<>>
    /\ UNCHANGED <<pid_file, instances, interfaces, headless>>

(***************************************************************************)
(* _watch_process                                                          *)
(***************************************************************************)
\* The test of the running flag left out
exit_never_expected == FALSE

\* if not self.running: return
exit_expected == ~running

\* returncode = await ps.process.wait() returned: lines 178-205
WatchExit(n, k) ==
    LET p == procs[n][k]
        ps == processes[n]
        rc == p.returncode
        count == count_after_window(ps)
    IN  /\ p.watch = "wait"
        /\ ~Alive(p)
        /\ IF exit_expected
           THEN /\ procs' = [procs EXCEPT ![n][k].watch = "done", ![n][k].returncode = 0]
                /\ emitted' = <<>>
                /\ UNCHANGED processes
           ELSE IF policy_returns(rc)
           THEN /\ processes' = [processes EXCEPT ![n].state = "failed"]
                /\ procs' = [procs EXCEPT ![n][k].watch = "done", ![n][k].returncode = 0]
                /\ emitted' = <<Ev("exit", n, rc)>>
           ELSE IF limit_reached(count)
           THEN /\ processes' = [processes EXCEPT ![n].state = "failed",
                                                  ![n].restart_count = count]
                /\ procs' = [procs EXCEPT ![n][k].watch = "done", ![n][k].returncode = 0]
                /\ emitted' = <<Ev("exit", n, rc), Ev("max_restarts", n, 0)>>
           ELSE /\ processes' = [processes EXCEPT ![n].state = "failed",
                                                  ![n].restart_count = count + 1,
                                                  ![n].last_restart = now]
                /\ procs' = [procs EXCEPT ![n][k].watch = "delay",
                                          ![n][k].returncode = 0,
                                          ![n][k].wake = now + config.restart_delay]
                /\ emitted' = <<Ev("exit", n, rc)>>
        /\ UNCHANGED <<services, config, running, order, starter, stopper, health,
                       now>>
        /\ Deliver
        /\ status' = <<>>
        /\ UNCHANGED <<pid_file, instances, interfaces, headless>>

\* await asyncio.sleep(restart_delay) is over: lines 206-207
RestartWake(n, k) ==
    LET p == procs[n][k]
    IN  /\ p.watch = "delay"
        /\ now >= p.wake
        /\ IF running
           THEN /\ Relaunches(procs) < MaxRelaunches
                /\ processes' = start_begin(processes, n)
                /\ procs' = [procs EXCEPT ![n][k].watch = "spawn", ![n][k].wake = 0]
                /\ emitted' = <<Ev("state_change", n, "starting")>>
           ELSE /\ procs' = [procs EXCEPT ![n][k].watch = "done", ![n][k].wake = 0]
                /\ emitted' = <<>>
                /\ UNCHANGED processes
        /\ UNCHANGED <<services, config, running, order, starter, stopper, health,
                       now>>
        /\ Deliver
        /\ status' = <<>>
        /\ UNCHANGED <<pid_file, instances, interfaces, headless>>

\* The spawn awaited by the watcher's _start_service returns or raises.
RestartSpawned(n, k, ok) ==
    /\ procs[n][k].watch = "spawn"
    /\ IF ok
       THEN /\ processes' = spawn_ok(processes, procs, n)
            /\ procs' = [procs EXCEPT ![n] = Append([@ EXCEPT ![k] = Gone],
                                                   NewProcess)]
            /\ emitted' = <<Ev("state_change", n, "running")>>
       ELSE /\ processes' = spawn_fail(processes, n)
            /\ procs' = [procs EXCEPT ![n][k].watch = "done", ![n][k].returncode = 0]
            /\ emitted' = <<Ev("error", n, "spawn")>>
    /\ UNCHANGED <<services, config, running, order, starter, stopper, health,
                   now>>
    /\ Deliver
    /\ status' = <<>>
    /\ UNCHANGED <<pid_file, instances, interfaces, headless>>

(***************************************************************************)
(* stop_all and _stop_service                                              *)
(***************************************************************************)
\* The test of returncode left out: every service that ever got a process
StopCandidatesAnyProcess(P, PR, names, i) ==
    {j \in i..Len(names) : P[names[j]].process # 0}

\* The names at or after position i of the list stop_all walks whose
\* ProcessState holds a process with returncode None.
StopCandidates(P, PR, names, i) ==
    {j \in i..Len(names) : HasLiveProcess(P[names[j]], PR[names[j]])}

\* The loop of stop_all from position i up to its next suspension: services
\* without a live process are passed over; the first live one is set to
\* "stopping" and sent terminate(), and stop_all awaits its exit.
stop_from(P, PR, names, i, ev) ==
    LET c == StopCandidates(P, PR, names, i)
    IN  IF c = {}
        THEN [P |-> P, PR |-> PR, ev |-> ev,
              task |-> [pc |-> "done", names |-> names, idx |-> Len(names) + 1,
                        k |-> 0]]
        ELSE LET j == CHOOSE x \in c : \A y \in c : x <= y
                 nm == names[j]
                 k == P[nm].process
             IN  [P |-> [P EXCEPT ![nm].state = "stopping"],
                  PR |-> [PR EXCEPT ![nm][k].signal = "term"],
                  ev |-> Append(ev, Ev("state_change", nm, "stopping")),
                  task |-> [pc |-> "wait", names |-> names, idx |-> j, k |-> k]]

\* self._health_task.cancel() if the task exists and is not done
health_cancel(h) ==
    IF h.pc \in {"grace", "check", "sleep"} THEN [h EXCEPT !.pc = "cancelled"] ELSE h

\* terminate() and kill() without effect: the signal is never sent
no_signal(PR, nm, k) == PR

\* ps.process.kill()
kill(PR, nm, k) ==
    IF Alive(PR[nm][k]) THEN [PR EXCEPT ![nm][k].signal = "kill"] ELSE PR

\* First turn of stop_all
StopAllCore ==
    /\ running
    /\ stopper.pc = "idle"
    /\ running' = FALSE
    /\ health' = health_cancel(health)
    /\ LET r == stop_from(processes, procs, Reverse(order), 1, <<>>)
       IN  /\ processes' = r.P
           /\ procs' = r.PR
           /\ emitted' = r.ev
           /\ stopper' = r.task
    /\ UNCHANGED <<services, config, order, starter, now>>
    /\ Deliver
    /\ status' = <<>>

\* stop_all called on its own: nothing of run_headless changes
StopAll ==
    /\ StopAllCore
    /\ UNCHANGED <<pid_file, instances, interfaces, headless>>

\* First turn of a stop_all called after an earlier stop_all returned
StopAllAgain ==
    /\ stopper.pc = "done"
    /\ running' = FALSE
    /\ health' = health_cancel(health)
    /\ LET r == stop_from(processes, procs, Reverse(order), 1, <<>>)
       IN  /\ processes' = r.P
           /\ procs' = r.PR
           /\ emitted' = r.ev
           /\ stopper' = r.task
    /\ UNCHANGED <<services, config, order, starter, now>>
    /\ Deliver
    /\ status' = <<>>
    /\ UNCHANGED <<pid_file, instances, interfaces, headless>>

\* The awaited process exited: ps.state = "stopped", then the loop goes on.
StopWaitDoneCore ==
    /\ stopper.pc \in {"wait", "killwait"}
    /\ LET nm == stopper.names[stopper.idx]
       IN  /\ ~Alive(procs[nm][stopper.k])
           /\ LET r == stop_from([processes EXCEPT ![nm].state = "stopped"], procs,
                                 stopper.names, stopper.idx + 1,
                                 <<Ev("state_change", nm, "stopped")>>)
              IN  /\ processes' = r.P
                  /\ procs' = r.PR
                  /\ emitted' = r.ev
                  /\ stopper' = r.task
    /\ UNCHANGED <<services, config, running, order, starter, health, now>>
    /\ Deliver
    /\ status' = <<>>

\* stop_all goes on, called on its own: nothing of run_headless changes
StopWaitDone ==
    /\ StopWaitDoneCore
    /\ UNCHANGED <<pid_file, instances, interfaces, headless>>

\* asyncio.TimeoutError after the grace period: ps.process.kill(), then
\* await ps.process.wait()
StopTimeout ==
    /\ stopper.pc = "wait"
    /\ LET nm == stopper.names[stopper.idx]
           k == processes[nm].process
       IN  /\ Alive(procs[nm][stopper.k])
           /\ procs' = kill(procs, nm, k)
           /\ stopper' = [stopper EXCEPT !.pc = "killwait", !.k = k]
    /\ emitted' = <<>>
    /\ UNCHANGED <<services, config, running, order, processes, starter, health,
                   now>>
    /\ Deliver
    /\ status' = <<>>
    /\ UNCHANGED <<pid_file, instances, interfaces, headless>>

(***************************************************************************)
(* _health_check_loop                                                      *)
(***************************************************************************)
\* Positions at or after i of self.processes.items() whose service is
\* "running" and has a health check
HealthCandidates(i) ==
    {j \in i..Len(order) : /\ processes[order[j]].state = "running"
                           /\ processes[order[j]].service.health_check}

\* The scan that invokes no check
health_never_checks(i) == [pc |-> "sleep", pos |-> 0]

\* The for loop from position i up to its next suspension
health_from(i) ==
    LET c == HealthCandidates(i)
    IN  IF c = {} THEN [pc |-> "sleep", pos |-> 0]
        ELSE [pc |-> "check", pos |-> CHOOSE x \in c : \A y \in c : x <= y]

\* A sleep of the loop is over: while self.running
HealthWake ==
    /\ health.pc \in {"grace", "sleep"}
    /\ health' = IF running THEN health_from(1) ELSE [pc |-> "done", pos |-> 0]
    /\ emitted' = <<>>
    /\ UNCHANGED <<services, config, running, order, processes, procs, starter,
                   stopper, now>>
    /\ Deliver
    /\ status' = <<>>
    /\ UNCHANGED <<pid_file, instances, interfaces, headless>>

\* await ps.service.health_check() returned True or False, or raised
HealthResult(res) ==
    /\ health.pc = "check"
    /\ LET name == order[health.pos]
       IN  emitted' = IF res = "unhealthy" THEN <<Ev("unhealthy", name, 0)>>
                      ELSE IF res = "raises" THEN <<Ev("health_error", name, 0)>>
                      ELSE <<>>
    /\ health' = health_from(health.pos + 1)
    /\ UNCHANGED <<services, config, running, order, processes, procs, starter,
                   stopper, now>>
    /\ Deliver
    /\ status' = <<>>
    /\ UNCHANGED <<pid_file, instances, interfaces, headless>>

(***************************************************************************)
(* get_status                                                              *)
(***************************************************************************)
\* The snapshot that leaves out the services that are not running
get_status_running_only(P) ==
    [n \in {x \in DOMAIN P : P[x].state = "running"} |->
        [state |-> P[n].state, pid |-> P[n].process,
         restarts |-> P[n].restart_count, uptime |-> TRUE]]

\* result[name] = {"state", "pid", "restarts", "uptime", "command"}: pid is
\* 0 for None; uptime is recorded as whether it is a number (the service
\* was spawned and is "running") or None.
get_status(P) ==
    [n \in DOMAIN P |->
        [state |-> P[n].state, pid |-> P[n].process,
         restarts |-> P[n].restart_count,
         uptime |-> (P[n].process # 0 /\ P[n].state = "running")]]

\* A call of get_status: a synchronous read, made between any two turns
GetStatus ==
    /\ status' = <<get_status(processes)>>
    /\ emitted' = <<>>
    /\ delivered' = <<>>
    /\ UNCHANGED <<services, config, running, order, processes, procs, starter,
                   stopper, health, now, callbacks, pid_file, instances,
                   interfaces, headless>>

(***************************************************************************)
(* The `start` command, run_headless and the PID file                      *)
(***************************************************************************)
MaxInstances == 3

Pids == 1..MaxInstances

Modes == {"headless", "tui"}

\* An rnm process that was not started yet
NotStarted == [pc |-> "none", mode |-> "headless"]

\* run_headless has not been called: no handler installed, shutdown_event
\* not set
NotHeadless == [pc |-> "none", shutdown_event |-> FALSE, signals |-> 0]

\* A process of the host that is not rnm
Other == [pc |-> "other", mode |-> "headless"]

\* PID_FILE does not exist
NoFile == [exists |-> FALSE, text |-> <<>>]

\* PID_FILE holds this text, a sequence of characters
File(text) == [exists |-> TRUE, text |-> text]

DigitChars == <<"0", "1", "2", "3", "4", "5", "6", "7", "8", "9">>

Whitespace == {" ", "\n"}

RECURSIVE str(_)
\* str(os.getpid()): the decimal digits of a positive integer
str(n) ==
    IF n < 10 THEN <<DigitChars[n + 1]>>
    ELSE str(n \div 10) \o <<DigitChars[(n % 10) + 1]>>

RECURSIVE lstrip(_)
lstrip(text) ==
    IF text # <<>> /\ Head(text) \in Whitespace THEN lstrip(Tail(text)) ELSE text

\* text.strip(): leading and trailing whitespace removed
strip(text) == Reverse(lstrip(Reverse(lstrip(text))))

\* The value of a digit, 10 for any other character
DigitValue(c) ==
    IF \E d \in 1..10 : DigitChars[d] = c
    THEN (CHOOSE d \in 1..10 : DigitChars[d] = c) - 1
    ELSE 10

RECURSIVE int_from(_, _)
\* The digits of text read from the left, acc being the value so far;
\* -1 (ValueError) at a character that is not a digit
int_from(text, acc) ==
    IF text = <<>> THEN acc
    ELSE IF DigitValue(Head(text)) = 10 THEN -1
    ELSE int_from(Tail(text), 10 * acc + DigitValue(Head(text)))

\* int(text) of an unsigned text: -1 stands for ValueError
int(text) == IF text = <<>> THEN -1 ELSE int_from(text, 0)

\* os.kill(pid, 0) succeeds: a process with this pid exists
ProcessExists(inst, pid) ==
    pid \in DOMAIN inst /\ inst[pid].pc \in {"loading", "supervising", "other"}

\* read_pid: None (0) if PID_FILE does not exist, its text is no integer or
\* no process has the pid it holds, else the pid
read_pid(file, inst) ==
    IF ~file.exists THEN 0
    ELSE LET pid == int(strip(file.text))
         IN  IF pid = -1 THEN 0
             ELSE IF ProcessExists(inst, pid) THEN pid
             ELSE 0

\* `rnm start` up to load_config: refused if read_pid finds an instance (the
\* process that calls read_pid exists itself)
start(pid, mode) ==
    /\ instances[pid].pc = "none"
    /\ instances' = [instances EXCEPT ![pid] =
                        [pc |-> IF read_pid(pid_file,
                                            [instances EXCEPT ![pid].pc = "loading"]) # 0
                                THEN "refused" ELSE "loading",
                         mode |-> mode]]
    /\ UNCHANGED pid_file

\* The configuration is loaded: run_headless writes the PID file and starts
\* the services; RNMApp.run() starts them without writing it.
run(pid) ==
    /\ instances[pid].pc = "loading"
    /\ instances' = [instances EXCEPT ![pid].pc = "supervising"]
    /\ pid_file' = IF instances[pid].mode = "headless" THEN File(str(pid))
                   ELSE pid_file

\* The instance shuts down: run_headless removes the PID file in its finally
\* clause, whatever pid the file holds.
shutdown(pid) ==
    /\ instances[pid].pc = "supervising"
    /\ instances' = [instances EXCEPT ![pid].pc = "exited"]
    /\ pid_file' = IF instances[pid].mode = "headless" THEN NoFile ELSE pid_file

\* The instance is killed (SIGKILL): nothing is cleaned up
killed(pid) ==
    /\ instances[pid].pc = "supervising"
    /\ instances' = [instances EXCEPT ![pid].pc = "exited"]
    /\ UNCHANGED pid_file

\* The host gives the pid of an rnm process that is gone to another process
reused(pid) ==
    /\ instances[pid].pc \in {"exited", "refused"}
    /\ instances' = [instances EXCEPT ![pid] = Other]
    /\ UNCHANGED pid_file

(***************************************************************************)
(* build_services                                                          *)
(***************************************************************************)
MaxInterfaces == 3

\* Keys of config.interfaces, in dict order
InterfaceNames == <<"vhf", "hf", "ht", "uhf", "lf">>

DirewolfInterface(name, enabled) ==
    [name |-> name, enabled |-> enabled, type |-> "direwolf", ptt |-> "none"]

FreeDVInterface(name, enabled, ptt) ==
    [name |-> name, enabled |-> enabled, type |-> "freedvtnc2", ptt |-> ptt]

\* An interface Reticulum drives itself over a serial port
SerialKISSInterface(name, enabled) ==
    [name |-> name, enabled |-> enabled, type |-> "serial_kiss", ptt |-> "none"]

\* Every interface that can stand under a given key
InterfacesNamed(name) ==
    {DirewolfInterface(name, e) : e \in BOOLEAN}
        \cup {FreeDVInterface(name, e, ptt) : e \in BOOLEAN, ptt \in {"rigctld", "vox"}}
        \cup {SerialKISSInterface(name, e) : e \in BOOLEAN}

\* The enabled test of the first loop left out
needs_rigctld_if_configured(ifs) ==
    \E i \in 1..Len(ifs) : ifs[i].type = "freedvtnc2" /\ ifs[i].ptt = "rigctld"

\* The first loop: some enabled FreeDV interface has PTT type rigctld
needs_rigctld(ifs) ==
    \E i \in 1..Len(ifs) :
        ifs[i].enabled /\ ifs[i].type = "freedvtnc2" /\ ifs[i].ptt = "rigctld"

\* The second loop left out: no rigctld service is ever built
rigctld_services_none(ifs) == <<>>

\* The second loop: one rigctld service, built from the first enabled FreeDV
\* interface with PTT type rigctld
rigctld_services(ifs) ==
    IF needs_rigctld(ifs) THEN <<ServiceDefinition("rigctld", <<>>, TRUE)>> ELSE <<>>

\* The enabled test of the third loop left out
tnc_service_even_if_disabled(ifs, iface) ==
    IF iface.type = "direwolf"
    THEN <<ServiceDefinition("direwolf_" \o iface.name, <<>>, TRUE)>>
    ELSE IF iface.type = "freedvtnc2"
    THEN <<ServiceDefinition("freedvtnc2_" \o iface.name,
                             IF iface.ptt = "rigctld" /\ needs_rigctld(ifs)
                             THEN <<"rigctld">> ELSE <<>>,
                             TRUE)>>
    ELSE <<>>

\* One pass of the third loop: the service appended for iface, if any
tnc_service(ifs, iface) ==
    IF ~iface.enabled THEN <<>>
    ELSE IF iface.type = "direwolf"
    THEN <<ServiceDefinition("direwolf_" \o iface.name, <<>>, TRUE)>>
    ELSE IF iface.type = "freedvtnc2"
    THEN <<ServiceDefinition("freedvtnc2_" \o iface.name,
                             IF iface.ptt = "rigctld" /\ needs_rigctld(ifs)
                             THEN <<"rigctld">> ELSE <<>>,
                             TRUE)>>
    ELSE <<>>

RECURSIVE tnc_services(_, _)
\* The third loop from position i on
tnc_services(ifs, i) ==
    IF i > Len(ifs) THEN <<>>
    ELSE tnc_service(ifs, ifs[i]) \o tnc_services(ifs, i + 1)

\* rigctld, the TNCs, then rnsd, which depends on tnc_names
build_services(ifs) ==
    LET tncs == tnc_services(ifs, 1)
    IN  rigctld_services(ifs) \o tncs
            \o <<ServiceDefinition("rnsd", NamesOf(tncs), FALSE)>>

(***************************************************************************)
(* Specifications                                                          *)
(***************************************************************************)
\* Descriptor lists the supervisor is run on: a single service, a pair and a
\* chain given in reverse, a cycle, a dangling dependency, a duplicated name.
Single == <<ServiceDefinition("a", <<>>, TRUE)>>

Pair == <<ServiceDefinition("b", <<"a">>, TRUE),
          ServiceDefinition("a", <<>>, FALSE)>>

Chain == <<ServiceDefinition("c", <<"b">>, FALSE),
           ServiceDefinition("b", <<"a">>, TRUE),
           ServiceDefinition("a", <<>>, FALSE)>>

Cycle == <<ServiceDefinition("a", <<"b">>, FALSE),
           ServiceDefinition("b", <<"a">>, TRUE)>>

Dangling == <<ServiceDefinition("b", <<"a">>, TRUE),
              ServiceDefinition("a", <<"c">>, FALSE)>>

Duplicate == <<ServiceDefinition("a", <<>>, FALSE),
               ServiceDefinition("a", <<"b">>, TRUE),
               ServiceDefinition("b", <<>>, FALSE)>>

Scenarios == {Chain, Cycle, Dangling, Duplicate}

\* The single service is run under every ProcessConfig, the pair under the
\* limit of two restarts with a window that never elapses or a delay that
\* outlasts the window, the lists of Scenarios without restarts.
PairConfigs ==
    {c \in ProcessConfigs :
        /\ c.max_restarts = 2
        /\ \/ c.restart_delay = 0 /\ c.restart_window = Horizon
           \/ c.restart_delay = 1 /\ c.restart_window = 0}

NeverConfig ==
    [restart_policy |-> "never", restart_delay |-> 0, max_restarts |-> 0,
     restart_window |-> 0]

InitRest ==
    /\ running = FALSE
    /\ order = <<>>
    /\ processes = <<>>
    /\ procs = [n \in Names |-> <<>>]
    /\ starter = [pc |-> "idle", ordered |-> <<>>, idx |-> 0]
    /\ stopper = [pc |-> "idle", names |-> <<>>, idx |-> 0, k |-> 0]
    /\ health = [pc |-> "none", pos |-> 0]
    /\ now = T0
    /\ emitted = <<>>
    /\ callbacks = <<>>
    /\ delivered = <<>>
    /\ status = <<>>
    /\ pid_file = NoFile
    /\ instances = [p \in Pids |-> NotStarted]
    /\ interfaces = <<>>
    /\ headless = NotHeadless

Init ==
    /\ \/ services = Single /\ config \in ProcessConfigs
       \/ services = Pair /\ config \in PairConfigs
       \/ services \in Scenarios /\ config = NeverConfig
    /\ InitRest

Next ==
    \/ StartServices
    \/ \E ok \in BOOLEAN : StarterSpawned(ok)
    \/ StarterWake
    \/ \E n \in Names : \E k \in 1..Len(procs[n]) :
          \E rc \in {-15, -9, 0, 1} : ProcExit(n, k, rc)
    \/ Tick
    \/ \E n \in Names : \E k \in 1..Len(procs[n]) : WatchExit(n, k)
    \/ \E n \in Names : \E k \in 1..Len(procs[n]) : RestartWake(n, k)
    \/ \E n \in Names : \E k \in 1..Len(procs[n]) :
          \E ok \in BOOLEAN : RestartSpawned(n, k, ok)
    \/ StopAll
    \/ StopWaitDone
    \/ StopTimeout
    \/ HealthWake
    \/ \E res \in {"healthy", "unhealthy", "raises"} : HealthResult(res)

Spec == Init /\ [][Next]_vars

(***************************************************************************)
(* The dependency resolver alone, on every list of at most MaxServices     *)
(* descriptors with pairwise distinct names                                *)
(***************************************************************************)
NameLists == {ns \in SeqsUpTo(Names, MaxServices) : Injective(ns)}

ServiceLists ==
    UNION {{[i \in 1..Len(ns) |-> ServiceDefinition(ns[i], ds[i], FALSE)] :
               ds \in [1..Len(ns) -> DepLists]} : ns \in NameLists}

InitSort ==
    /\ services \in ServiceLists
    /\ config = NeverConfig
    /\ InitRest

\* ordered = self._dependency_sort(services)
SortOnly ==
    /\ starter.pc = "idle"
    /\ starter' = [pc |-> "sorted", ordered |-> dependency_sort(services), idx |-> 0]
    /\ UNCHANGED <<services, config, running, order, processes, procs, stopper,
                   health, now, emitted, callbacks, delivered, status, pid_file,
                   instances, interfaces, headless>>

SpecSort == InitSort /\ [][SortOnly]_vars

(***************************************************************************)
(* The dependency graph of a descriptor list                               *)
(***************************************************************************)
DeclaredNames(svcs) == {svcs[i].name : i \in 1..Len(svcs)}

\* The names the descriptors called n list in depends_on
DirectDeps(svcs, n) ==
    UNION {Range(svcs[i].depends_on) : i \in {j \in 1..Len(svcs) : svcs[j].name = n}}

RECURSIVE Closure(_, _)
Closure(svcs, S) ==
    LET T == S \cup UNION {DirectDeps(svcs, n) : n \in S}
    IN  IF T = S THEN S ELSE Closure(svcs, T)

\* Everything reachable from n through one or more depends_on edges
TransitiveDeps(svcs, n) == Closure(svcs, DirectDeps(svcs, n))

UniqueNames(svcs) == Injective(NamesOf(svcs))

HasDangling(svcs) ==
    \E n \in DeclaredNames(svcs) : ~(DirectDeps(svcs, n) \subseteq DeclaredNames(svcs))

HasCycle(svcs) == \E n \in DeclaredNames(svcs) : n \in TransitiveDeps(svcs, n)

ValidSet(svcs) == UniqueNames(svcs) /\ ~HasDangling(svcs) /\ ~HasCycle(svcs)

\* Positions of name n in a list of names
Positions(ns, n) == {i \in 1..Len(ns) : ns[i] = n}

\* In the list of names ns, n stands after every one of its transitive
\* dependencies, each of which is in the list.
AfterItsDeps(svcs, ns, n) ==
    \A dep \in TransitiveDeps(svcs, n) :
        \A i \in Positions(ns, n) : \E j \in Positions(ns, dep) : j < i

(***************************************************************************)
(* C1: for an acyclic descriptor list with unique names and no dangling    *)
(* dependency, the list _dependency_sort returns holds every descriptor,   *)
(* each after all of its direct and transitive dependencies.               *)
(***************************************************************************)
C1_SortRespectsDeps ==
    (starter.pc = "sorted" /\ ValidSet(services)) =>
        \A n \in DeclaredNames(services) :
            /\ Positions(NamesOf(starter.ordered), n) # {}
            /\ AfterItsDeps(services, NamesOf(starter.ordered), n)

\* The chain c -> b -> a given with the dependent first comes out as a, b, c.
C1_Witness ==
    /\ starter.pc = "sorted"
    /\ NamesOf(services) = <<"c", "b", "a">>
    /\ services[1].depends_on = <<"b">>
    /\ services[2].depends_on = <<"a">>
    /\ services[3].depends_on = <<>>
    /\ NamesOf(starter.ordered) = <<"a", "b", "c">>

(***************************************************************************)
(* C2: a descriptor list with a dependency cycle is rejected: the resolver *)
(* never returns an order for it.                                          *)
(***************************************************************************)
C2_CycleRejected ==
    HasCycle(services) => starter.pc # "sorted"

(***************************************************************************)
(* The specification under which stopping is followed to its end: the      *)
(* event loop runs a task whose awaited process has exited, and a process  *)
(* sent SIGKILL exits.                                                     *)
(***************************************************************************)
InitFair ==
    /\ \/ services = Single /\ config \in ProcessConfigs
       \/ services = Pair /\ config = NeverConfig
    /\ InitRest

KilledExit ==
    \E n \in Names : \E k \in 1..Len(procs[n]) :
        procs[n][k].signal = "kill" /\ ProcExit(n, k, -9)

FairSpec ==
    /\ InitFair
    /\ [][Next]_vars
    /\ WF_vars(StopWaitDone)
    /\ WF_vars(KilledExit)

(***************************************************************************)
(* Vocabulary of the claims                                                *)
(***************************************************************************)
HasEvent(evs, kind, n) ==
    \E i \in 1..Len(evs) : evs[i][1] = kind /\ evs[i][2] = n

CountEvents(evs, kind, n) ==
    Cardinality({i \in 1..Len(evs) : evs[i][1] = kind /\ evs[i][2] = n})

IsPrefix(s, t) == Len(s) <= Len(t) /\ \A i \in 1..Len(s) : s[i] = t[i]

Launched(n) == n \in DOMAIN processes

\* Some _watch_process task of n has not returned
WatcherActive(n) == \E k \in 1..Len(procs[n]) : procs[n][k].watch # "done"

\* start_services is inside _start_service for n
StarterLaunching(n) ==
    starter.pc = "spawn" /\ starter.ordered[starter.idx].name = n

\* n is Failed and no task is left that would relaunch it
Settled(n) ==
    /\ Launched(n)
    /\ processes[n].state = "failed"
    /\ ~WatcherActive(n)
    /\ ~StarterLaunching(n)

\* n is Failed and its watcher sleeps the restart delay before relaunching
RelaunchScheduled(n) ==
    /\ Launched(n)
    /\ processes[n].state = "failed"
    /\ \E k \in 1..Len(procs[n]) : procs[n][k].watch = "delay"

\* The step in which the watcher of process k of n learns of its exit
ExitHandled(n, k) ==
    /\ procs[n][k].watch = "wait"
    /\ procs'[n][k].watch # "wait"

\* Time since the last restart of n exceeds the restart window
WindowElapsed(n) == now - processes[n].last_restart > config.restart_window

\* The policy restarts after an exit with code rc
PolicyRestarts(rc) ==
    \/ config.restart_policy = "always"
    \/ config.restart_policy = "on-failure" /\ rc # 0

\* n has used up its restarts in the current window
AtLimit(n) ==
    /\ config.max_restarts > 0
    /\ processes[n].restart_count >= config.max_restarts
    /\ ~WindowElapsed(n)

C4_LaunchOrder ==
    /\ ValidSet(services) =>
          \A n \in Range(order) :
              /\ Cardinality(Positions(order, n)) = 1
              /\ AfterItsDeps(services, order, n)
    /\ starter.pc = "spawn" => order[Len(order)] = starter.ordered[starter.idx].name
    /\ services = Chain => IsPrefix(order, <<"a", "b", "c">>)

C4_Witness ==
    /\ services = Chain
    /\ starter.pc = "done"
    /\ order = <<"a", "b", "c">>
    /\ \A n \in Names : processes[n].state = "running"

(***************************************************************************)
(* C5: while stop_all is stopping a service (terminate sent, exit not yet  *)
(* confirmed), no service started after it has a live process.             *)
(***************************************************************************)
C5_ReverseStopOrder ==
    stopper.pc \in {"wait", "killwait"} =>
        LET cur == stopper.names[stopper.idx]
        IN  \A i \in Positions(order, cur) : \A j \in (i + 1)..Len(order) :
                \A k \in 1..Len(procs[order[j]]) : ~Alive(procs[order[j]][k])

(***************************************************************************)
(* C6: under restart policy "on-failure", while the supervisor is running, *)
(* an exit with code 0 leaves the service Failed with no watcher left to   *)
(* relaunch it, and it stays so; an exit with a non-zero code below the    *)
(* restart limit schedules a relaunch that is due restart_delay later, and *)
(* the delay never ends early and ends in a relaunch if still running.     *)
(***************************************************************************)
C6_OnFailurePolicy ==
    [][config.restart_policy = "on-failure" =>
          \A n \in Names : \A k \in 1..Len(procs[n]) :
              /\ (running /\ ExitHandled(n, k)) =>
                    /\ procs[n][k].returncode = 0 =>
                          /\ Settled(n)'
                          /\ Len(procs'[n]) = Len(procs[n])
                    /\ (procs[n][k].returncode # 0 /\ ~AtLimit(n)) =>
                          /\ RelaunchScheduled(n)'
                          /\ procs'[n][k].wake = now + config.restart_delay
              /\ (procs[n][k].watch = "delay" /\ procs'[n][k].watch # "delay") =>
                    /\ now >= procs[n][k].wake
                    /\ running => /\ processes'[n].state = "starting"
                                  /\ procs'[n][k].watch = "spawn"
              /\ Settled(n) => /\ Settled(n)'
                               /\ Len(procs'[n]) = Len(procs[n])]_vars

\* Without a limit: the first process failed and was replaced, the second
\* exited with code 0 and the service is left Failed.
C6_Witness ==
    /\ config.restart_policy = "on-failure"
    /\ config.max_restarts = 0
    /\ running
    /\ services = Single
    /\ Settled("a")
    /\ processes["a"].process = 2
    /\ processes["a"].restart_count = 1

(***************************************************************************)
(* C7 as stated: with max_restarts = N > 0 and N restarts within the       *)
(* window, the next exit while running leaves the service Failed, emits    *)
(* max_restarts and leaves nothing that would relaunch it.                 *)
(***************************************************************************)
C7_LimitAlwaysReported ==
    [][\A n \in Names : \A k \in 1..Len(procs[n]) :
          (running /\ ExitHandled(n, k) /\ AtLimit(n)) =>
              /\ processes'[n].state = "failed"
              /\ HasEvent(emitted', "max_restarts", n)
              /\ Settled(n)']_vars

(***************************************************************************)
(* C7 amended: at the limit the next exit while running leaves the service *)
(* Failed with nothing left to relaunch it, for good; max_restarts is      *)
(* emitted exactly when the policy would have restarted after this exit    *)
(* (always, or on-failure with a non-zero code).                           *)
(***************************************************************************)
C7_LimitReached ==
    [][\A n \in Names : \A k \in 1..Len(procs[n]) :
          /\ (running /\ ExitHandled(n, k) /\ AtLimit(n)) =>
                /\ processes'[n].state = "failed"
                /\ Settled(n)'
                /\ Len(procs'[n]) = Len(procs[n])
                /\ HasEvent(emitted', "max_restarts", n)
                      <=> PolicyRestarts(procs[n][k].returncode)
          /\ (Settled(n) /\ AtLimit(n)) =>
                /\ Settled(n)'
                /\ Len(procs'[n]) = Len(procs[n])
                /\ ~HasEvent(emitted', "max_restarts", n)]_vars

\* Policy "always", limit 2: the third process exited with code 0 and the
\* service was given up.
C7_Witness ==
    /\ config.restart_policy = "always"
    /\ config.max_restarts = 2
    /\ running
    /\ Settled("a")
    /\ processes["a"].process = 3
    /\ processes["a"].restart_count = 2
    /\ Len(emitted) = 2
    /\ emitted[1][1] = "exit" /\ emitted[1][3] = 0
    /\ emitted[2][1] = "max_restarts" /\ emitted[2][2] = "a"

(***************************************************************************)
(* C8: policy "on-failure", max_restarts = 2, a window that does not       *)
(* elapse between the exits. The first and the second exit with code 1     *)
(* schedule a relaunch and emit no max_restarts; the third leaves the      *)
(* service Failed with nothing left to relaunch it and emits max_restarts  *)
(* once; max_restarts is emitted at no other step, and once given up the   *)
(* service stays so and gets no further process.                           *)
(***************************************************************************)
C8_Config ==
    /\ config.restart_policy = "on-failure"
    /\ config.max_restarts = 2
    /\ config.restart_window = Horizon

C8_ThreeFailures ==
    [][C8_Config =>
          \A n \in Names :
              /\ \A k \in 1..Len(procs[n]) :
                    (running /\ ExitHandled(n, k) /\ procs[n][k].returncode = 1) =>
                        /\ k \in {1, 2} =>
                              /\ RelaunchScheduled(n)'
                              /\ ~HasEvent(emitted', "max_restarts", n)
                        /\ k = 3 =>
                              /\ Settled(n)'
                              /\ CountEvents(emitted', "max_restarts", n) = 1
                        /\ k <= 3
              /\ HasEvent(emitted', "max_restarts", n) =>
                    /\ Len(procs[n]) = 3
                    /\ running /\ ExitHandled(n, 3)
              /\ Settled(n) => /\ Settled(n)'
                               /\ Len(procs'[n]) = Len(procs[n])]_vars

\* The third exit with code 1 has just been handled.
C8_Witness ==
    /\ C8_Config
    /\ services = Single
    /\ Settled("a")
    /\ processes["a"].process = 3
    /\ processes["a"].restart_count = 2
    /\ Len(emitted) = 2
    /\ emitted[1][1] = "exit" /\ emitted[1][3] = 1
    /\ emitted[2][1] = "max_restarts" /\ emitted[2][2] = "a"

(***************************************************************************)
(* C9 as stated: whenever a service that was restarted before exits while  *)
(* the supervisor is running and more than restart_window has passed since *)
(* its last restart, the counter restarts from zero (it is 1 after the     *)
(* relaunch is counted) and a relaunch is scheduled; otherwise the counter *)
(* is not reset.                                                           *)
(***************************************************************************)
C9_WindowResetAlways ==
    [][\A n \in Names : \A k \in 1..Len(procs[n]) :
          (running /\ ExitHandled(n, k) /\ processes[n].last_restart > 0) =>
              IF WindowElapsed(n)
              THEN /\ processes'[n].restart_count = 1
                   /\ RelaunchScheduled(n)'
              ELSE processes'[n].restart_count >= processes[n].restart_count]_vars

(***************************************************************************)
(* C9 amended: the reset belongs to the exits the policy restarts after    *)
(* (always, or on-failure with a non-zero code). For those, a window that  *)
(* has elapsed resets the counter before the limit is tested, so a         *)
(* relaunch is scheduled and counted as the first, whatever the counter    *)
(* was; within the window the counter is kept, and the limit applies to    *)
(* it. After an exit the policy does not restart after, the counter is     *)
(* left as it was and nothing is scheduled.                                *)
(***************************************************************************)
C9_WindowReset ==
    [][\A n \in Names : \A k \in 1..Len(procs[n]) :
          (running /\ ExitHandled(n, k)) =>
              IF ~PolicyRestarts(procs[n][k].returncode)
              THEN /\ processes'[n].restart_count = processes[n].restart_count
                   /\ Settled(n)'
              ELSE IF WindowElapsed(n)
              THEN /\ processes'[n].restart_count = 1
                   /\ processes'[n].last_restart = now
                   /\ RelaunchScheduled(n)'
              ELSE IF AtLimit(n)
              THEN /\ processes'[n].restart_count = processes[n].restart_count
                   /\ Settled(n)'
              ELSE /\ processes'[n].restart_count = processes[n].restart_count + 1
                   /\ RelaunchScheduled(n)']_vars

\* Window 0, no delay: the first two restarts were at T0, which brought the
\* counter to the limit of 2; the third exit came after the window and is
\* counted as restart 1.
C9_Witness ==
    /\ config.max_restarts = 2
    /\ config.restart_window = 0
    /\ config.restart_delay = 0
    /\ services = Single
    /\ RelaunchScheduled("a")
    /\ processes["a"].process = 3
    /\ processes["a"].restart_count = 1
    /\ processes["a"].last_restart = T0 + 1

(***************************************************************************)
(* C10: when the grace period runs out the process stop_all waits for is   *)
(* still alive and is sent SIGKILL; a service becomes Stopped only in a    *)
(* step after which its process has exited; and a service whose process    *)
(* was force-killed does reach Stopped.                                    *)
(***************************************************************************)
C10_ForceKill ==
    /\ [][/\ (stopper.pc = "wait" /\ stopper'.pc = "killwait") =>
                LET nm == stopper.names[stopper.idx]
                IN  /\ stopper'.k = stopper.k
                    /\ Alive(procs[nm][stopper.k])
                    /\ procs'[nm][stopper.k].signal = "kill"
                    /\ processes'[nm].state = "stopping"
          /\ \A n \in Names :
                (Launched(n) /\ processes[n].state # "stopped"
                    /\ processes'[n].state = "stopped") =>
                    /\ processes[n].state = "stopping"
                    /\ processes'[n].process # 0
                    /\ \A k \in 1..Len(procs'[n]) : ~Alive(procs'[n][k])]_vars
    /\ \A n \in Names :
          (stopper.pc = "killwait" /\ stopper.names[stopper.idx] = n)
              ~> (Launched(n) /\ processes[n].state = "stopped")

\* The service is Stopped and its process was ended by SIGKILL.
C10_Witness ==
    /\ Launched("a")
    /\ processes["a"].state = "stopped"
    /\ processes["a"].process # 0
    /\ procs["a"][processes["a"].process].returncode = -9
    /\ stopper.pc = "done"

(***************************************************************************)
(* C11: a health-check result changes nothing of the lifecycle. The step   *)
(* in which a check returns or raises leaves every ProcessState, every     *)
(* process and the running flag as they were and emits at most one event,  *)
(* unhealthy or health_error, for the checked service; these events are    *)
(* emitted by no other step; and every scan begun while the supervisor is  *)
(* running invokes the check of a Running service that has one, so the     *)
(* events of a failing check repeat.                                       *)
(***************************************************************************)
C11_HealthAdvisory ==
    [][/\ (health.pc = "check" /\ health' # health /\ health'.pc # "cancelled") =>
             /\ processes' = processes
             /\ procs' = procs
             /\ running' = running
             /\ Len(emitted') <= 1
             /\ \A i \in 1..Len(emitted') :
                   /\ emitted'[i][1] \in {"unhealthy", "health_error"}
                   /\ emitted'[i][2] = order[health.pos]
       /\ \A n \in Names :
             (HasEvent(emitted', "unhealthy", n) \/ HasEvent(emitted', "health_error", n)) =>
                 /\ health.pc = "check"
                 /\ order[health.pos] = n
                 /\ processes' = processes
       /\ (health.pc \in {"grace", "sleep"} /\ health' # health /\ running
              /\ health'.pc # "cancelled" /\ HealthCandidates(1) # {}) =>
             /\ health'.pc = "check"
             /\ health'.pos \in HealthCandidates(1)]_vars

\* The check of the Running service a has just failed in a scan that follows
\* a relaunch: a is still Running, with its counters.
C11_Witness ==
    /\ running
    /\ services = Single
    /\ HasEvent(emitted, "unhealthy", "a")
    /\ processes["a"].state = "running"
    /\ processes["a"].process = 2
    /\ processes["a"].restart_count = 1
    /\ health.pc = "sleep"

(***************************************************************************)
(* C12: once stop_all has begun the running flag is off, and while it is   *)
(* off a watcher that learns of its process's exit returns at once: no     *)
(* ProcessState changes (so no move to Failed), no event is emitted, no    *)
(* process is added; a watcher whose restart delay ends then returns       *)
(* without relaunching; an exit event is emitted only while running.       *)
(***************************************************************************)
C12_ExitDuringShutdown ==
    [][/\ stopper'.pc # "idle" => ~running'
       /\ \A n \in Names :
             /\ \A k \in 1..Len(procs[n]) :
                   /\ (~running /\ ExitHandled(n, k)) =>
                         /\ processes' = processes
                         /\ emitted' = <<>>
                         /\ procs'[n][k].watch = "done"
                         /\ Len(procs'[n]) = Len(procs[n])
                   /\ (~running /\ procs[n][k].watch = "delay"
                          /\ procs'[n][k].watch # "delay") =>
                         /\ processes' = processes
                         /\ emitted' = <<>>
                         /\ procs'[n][k].watch = "done"
                         /\ Len(procs'[n]) = Len(procs[n])
             /\ HasEvent(emitted', "exit", n) => running]_vars

\* Policy "always": the process of a exited with code 1 after stop_all had
\* set the flag, its watcher has returned, and a is Running as before.
C12_Witness ==
    /\ ~running
    /\ config.restart_policy = "always"
    /\ services = Pair
    /\ stopper.pc = "wait" /\ stopper.names[stopper.idx] = "b"
    /\ processes["a"].state = "running"
    /\ processes["a"].process = 1
    /\ ~Alive(procs["a"][1])
    /\ procs["a"][1].watch = "done"

(***************************************************************************)
(* C13: when the spawn awaited by start_services raises, the service is    *)
(* set to Failed and an error event is emitted for it, nothing else        *)
(* changes, and start_services goes on as after a successful spawn: after  *)
(* the pacing sleep it launches the next descriptor of the order, or, at   *)
(* the end of the order, finishes and creates the health-check task.       *)
(***************************************************************************)
C13_SpawnFailureContained ==
    [][/\ (starter.pc = "spawn" /\ starter' # starter /\ procs' = procs) =>
             LET name == starter.ordered[starter.idx].name
             IN  /\ processes' = [processes EXCEPT ![name].state = "failed"]
                 /\ HasEvent(emitted', "error", name)
                 /\ Len(emitted') = 1
                 /\ starter' = [starter EXCEPT !.pc = "sleep"]
                 /\ running' = running
       /\ (starter.pc = "sleep" /\ starter' # starter) =>
             IF starter.idx < Len(starter.ordered)
             THEN /\ starter'.pc = "spawn"
                  /\ starter'.idx = starter.idx + 1
                  /\ starter'.ordered = starter.ordered
                  /\ processes'[starter.ordered[starter.idx + 1].name].state = "starting"
             ELSE /\ starter'.pc = "done"
                  /\ health'.pc = "grace"
       /\ \A n \in Names :
             HasEvent(emitted', "error", n) =>
                 /\ \A m \in Names : Len(procs'[m]) = Len(procs[m])
                 /\ processes'[n].state = "failed"]_vars

\* The spawn of a failed, b and c were launched after it and the health-check
\* task was created.
C13_Witness ==
    /\ services = Chain
    /\ starter.pc = "done"
    /\ health.pc = "grace"
    /\ running
    /\ processes["a"].state = "failed"
    /\ procs["a"] = <<>>
    /\ Launched("b") /\ Launched("c")
    /\ processes["c"].state = "running"

(***************************************************************************)
(* C14: on a valid descriptor list, a service one of whose direct or       *)
(* transitive dependencies failed to spawn in start_services never gets a  *)
(* process.                                                                *)
(***************************************************************************)
C14_DependentsNotLaunched ==
    ValidSet(services) =>
        \A n \in Range(order) : \A d \in TransitiveDeps(services, n) :
            (Launched(d) /\ processes[d].state = "failed" /\ processes[d].process = 0)
                => procs[n] = <<>>

(***************************************************************************)
(* The supervisor with observers: callbacks are registered at any time,    *)
(* some of which raise when called. One service under a restart limit      *)
(* (its last exit emits two events in one turn), or the pair without       *)
(* restarts (stop_all emits "stopped" and the next "stopping" in one       *)
(* turn).                                                                  *)
(***************************************************************************)
LimitConfig ==
    [restart_policy |-> "always", restart_delay |-> 0, max_restarts |-> 2,
     restart_window |-> Horizon]

InitEmit ==
    /\ \/ services = Single /\ config = LimitConfig
       \/ services = Pair /\ config = NeverConfig
    /\ InitRest

NextEmit ==
    \/ \E cb \in Callbacks : on_event(cb)
    \/ Next

SpecEmit == InitEmit /\ [][NextEmit]_vars

(***************************************************************************)
(* C15: the calls made in a turn are, for each event emitted in the turn   *)
(* in order, one call of every registered callback in registration order   *)
(* with that event, whether or not callbacks raise; so no event of a turn  *)
(* that emits several is lost behind a raising callback. The list of       *)
(* callbacks changes only by a registration appending to it, which changes *)
(* nothing else.                                                           *)
(***************************************************************************)
C15_EmitReachesEveryObserver ==
    [][/\ Len(delivered') = Len(emitted') * Len(callbacks)
       /\ \A j \in 1..Len(emitted') : \A i \in 1..Len(callbacks) :
             delivered'[(j - 1) * Len(callbacks) + i] = <<callbacks[i], emitted'[j]>>
       /\ callbacks' # callbacks =>
             /\ \E cb \in Callbacks : callbacks' = Append(callbacks, cb)
             /\ UNCHANGED <<services, config, running, order, processes, procs,
                            starter, stopper, health, now>>]_vars

\* The first of two callbacks raises; the turn that gave the service up
\* emitted exit and max_restarts, and both reached the second callback.
C15_Witness ==
    /\ Len(callbacks) = 2
    /\ callbacks[1].raises /\ ~callbacks[2].raises
    /\ Len(emitted) = 2
    /\ emitted[1][1] = "exit"
    /\ emitted[2][1] = "max_restarts"
    /\ Len(delivered) = 4
    /\ delivered[2] = <<callbacks[2], emitted[1]>>
    /\ delivered[4] = <<callbacks[2], emitted[2]>>
    /\ processes["a"].state = "failed"

(***************************************************************************)
(* The supervisor with observers and with callers of get_status            *)
(***************************************************************************)
NextStatus ==
    \/ GetStatus
    \/ NextEmit

SpecStatus == InitEmit /\ [][NextStatus]_vars

(***************************************************************************)
(* C16: get_status can be called in every reachable state; the call leaves *)
(* every ProcessState, every process, the running flag, the tasks, the     *)
(* clock and the callbacks as they were, and returns exactly one entry per *)
(* name in self.processes, carrying that service's state, restart count    *)
(* and process (none for a service that never got one).                    *)
(***************************************************************************)
C16_StatusIsPureRead ==
    /\ [](ENABLED GetStatus)
    /\ [][status' # <<>> =>
             /\ UNCHANGED <<services, config, running, order, processes, procs,
                            starter, stopper, health, now, callbacks>>
             /\ Len(status') = 1
             /\ DOMAIN status'[1] = DOMAIN processes
             /\ \A n \in DOMAIN processes :
                   /\ status'[1][n].state = processes[n].state
                   /\ status'[1][n].restarts = processes[n].restart_count
                   /\ status'[1][n].pid = processes[n].process
                   /\ status'[1][n].uptime => processes[n].state = "running"]_vars

\* The snapshot of the pair in shutdown: a failed to spawn and has no
\* process, b is being stopped.
C16_Witness ==
    /\ status # <<>>
    /\ services = Pair
    /\ DOMAIN status[1] = {"a", "b"}
    /\ status[1]["a"].state = "failed" /\ status[1]["a"].pid = 0
    /\ status[1]["b"].state = "stopping" /\ status[1]["b"].pid = 1
    /\ ~running

(***************************************************************************)
(* The supervisor whose caller may call stop_all again once it returned    *)
(***************************************************************************)
NextStopAgain ==
    \/ StopAllAgain
    \/ Next

SpecStopAgain == InitEmit /\ [][NextStopAgain]_vars

\* The step is a turn of stop_all
StopAllTurn == stopper' # stopper

(***************************************************************************)
(* C17: a turn of stop_all leaves alone every service that has no live     *)
(* process: its ProcessState and processes are unchanged and no            *)
(* state_change event is emitted for it; and a stop_all called after a     *)
(* stop_all that returned changes no ProcessState and emits no event.      *)
(***************************************************************************)
C17_StopAllIdempotent ==
    [][StopAllTurn =>
          /\ \A n \in DOMAIN processes :
                ~HasLiveProcess(processes[n], procs[n]) =>
                    \/ /\ processes'[n] = processes[n]
                       /\ procs'[n] = procs[n]
                       /\ ~HasEvent(emitted', "state_change", n)
                    \/ /\ stopper.pc \in {"wait", "killwait"}
                       /\ stopper.names[stopper.idx] = n
          /\ stopper.pc = "done" =>
                /\ processes' = processes
                /\ emitted' = <<>>]_vars

(***************************************************************************)
(* C18: the lifecycle state of a service changes only along                *)
(* Stopped -> Starting, Starting -> Running, Starting -> Failed,           *)
(* Running -> Failed, Running -> Stopping, Stopping -> Stopped and         *)
(* Failed -> Starting. A service enters self.processes as Stopped and is   *)
(* set to Starting in the same turn.                                       *)
(***************************************************************************)
Transitions ==
    {<<"stopped", "starting">>, <<"starting", "running">>,
     <<"starting", "failed">>, <<"running", "failed">>,
     <<"running", "stopping">>, <<"stopping", "stopped">>,
     <<"failed", "starting">>}

StopAllAfterStart ==
    /\ starter.pc = "done"
    /\ StopAll

NextHeadless ==
    \/ StartServices
    \/ \E ok \in BOOLEAN : StarterSpawned(ok)
    \/ StarterWake
    \/ \E n \in Names : \E k \in 1..Len(procs[n]) :
          \E rc \in {-15, -9, 0, 1} : ProcExit(n, k, rc)
    \/ Tick
    \/ \E n \in Names : \E k \in 1..Len(procs[n]) : WatchExit(n, k)
    \/ \E n \in Names : \E k \in 1..Len(procs[n]) : RestartWake(n, k)
    \/ \E n \in Names : \E k \in 1..Len(procs[n]) :
          \E ok \in BOOLEAN : RestartSpawned(n, k, ok)
    \/ StopAllAfterStart
    \/ StopWaitDone
    \/ StopTimeout
    \/ HealthWake
    \/ \E res \in {"healthy", "unhealthy", "raises"} : HealthResult(res)

SpecHeadless == InitFair /\ [][NextHeadless]_vars

(***************************************************************************)
(* C19: once a stop_all that was called after start_services completed has *)
(* returned, no service is Starting, Running or Stopping and no process    *)
(* the supervisor spawned is alive.                                        *)
(***************************************************************************)
C19_NothingLeftAfterStop ==
    stopper.pc = "done" =>
        \A n \in DOMAIN processes :
            /\ processes[n].state \notin {"starting", "running", "stopping"}
            /\ \A k \in 1..Len(procs[n]) : ~Alive(procs[n][k])

(***************************************************************************)
(* The rnm processes of one host and the PID file: each is started once,   *)
(* headless or with the TUI, at any time relative to the others.           *)
(***************************************************************************)
InitInstances ==
    /\ services = Single
    /\ config = NeverConfig
    /\ InitRest

SupervisorUntouched ==
    UNCHANGED <<services, config, running, order, processes, procs, starter,
                stopper, health, now, emitted, callbacks, delivered, status,
                interfaces, headless>>

NextInstances ==
    \/ \E pid \in Pids : \E mode \in Modes : start(pid, mode) /\ SupervisorUntouched
    \/ \E pid \in Pids : run(pid) /\ SupervisorUntouched
    \/ \E pid \in Pids : shutdown(pid) /\ SupervisorUntouched
    \/ \E pid \in Pids : killed(pid) /\ SupervisorUntouched

SpecInstances == InitInstances /\ [][NextInstances]_vars

(***************************************************************************)
(* C20: at most one rnm instance is supervising at any time.               *)
(***************************************************************************)
C20_SingleInstance ==
    Cardinality({pid \in Pids : instances[pid].pc = "supervising"}) <= 1

(***************************************************************************)
(* build_services alone, on every config.interfaces of at most             *)
(* MaxInterfaces entries                                                   *)
(***************************************************************************)
InterfaceLists ==
    UNION {{ifs \in [1..n -> UNION {InterfacesNamed(InterfaceNames[i]) : i \in 1..n}] :
               \A i \in 1..n : ifs[i].name = InterfaceNames[i]} : n \in 0..MaxInterfaces}

InitBuild ==
    /\ interfaces \in InterfaceLists
    /\ headless = NotHeadless
    /\ services = <<>>
    /\ config = NeverConfig
    /\ running = FALSE
    /\ order = <<>>
    /\ processes = <<>>
    /\ procs = [n \in Names |-> <<>>]
    /\ starter = [pc |-> "idle", ordered |-> <<>>, idx |-> 0]
    /\ stopper = [pc |-> "idle", names |-> <<>>, idx |-> 0, k |-> 0]
    /\ health = [pc |-> "none", pos |-> 0]
    /\ now = T0
    /\ emitted = <<>>
    /\ callbacks = <<>>
    /\ delivered = <<>>
    /\ status = <<>>
    /\ pid_file = NoFile
    /\ instances = [p \in Pids |-> NotStarted]

\* services = build_services(self.config, self.generated_dir)
BuildOnly ==
    /\ starter.pc = "idle"
    /\ starter' = [starter EXCEPT !.pc = "built"]
    /\ services' = build_services(interfaces)
    /\ UNCHANGED <<config, running, order, processes, procs, stopper, health, now,
                   emitted, callbacks, delivered, status, pid_file, instances,
                   interfaces, headless>>

SpecBuild == InitBuild /\ [][BuildOnly]_vars

\* Positions of the interfaces that get a TNC process
TncInterfaces(ifs) ==
    {i \in 1..Len(ifs) : ifs[i].enabled /\ ifs[i].type \in {"direwolf", "freedvtnc2"}}

\* The name of the TNC service of an interface
TncName(iface) ==
    IF iface.type = "direwolf" THEN "direwolf_" \o iface.name
    ELSE "freedvtnc2_" \o iface.name

\* Positions of name n in the service list
ServicesNamed(svcs, n) == {j \in 1..Len(svcs) : svcs[j].name = n}

FreeDVWithPtt(ifs, ptt) ==
    {i \in 1..Len(ifs) :
        ifs[i].enabled /\ ifs[i].type = "freedvtnc2" /\ ifs[i].ptt = ptt}

(***************************************************************************)
(* C22: the list build_services returns holds a rigctld service iff some   *)
(* enabled FreeDV interface has PTT type rigctld, and never more than one; *)
(* the freedvtnc2 service of every enabled FreeDV interface with PTT type  *)
(* rigctld has depends_on = [rigctld], and that of one with PTT type vox   *)
(* has an empty depends_on.                                                *)
(***************************************************************************)
C22_RigctldOnDemand ==
    starter.pc = "built" =>
        /\ ServicesNamed(services, "rigctld") # {}
              <=> FreeDVWithPtt(interfaces, "rigctld") # {}
        /\ Cardinality(ServicesNamed(services, "rigctld")) <= 1
        /\ \A i \in FreeDVWithPtt(interfaces, "rigctld") :
              /\ ServicesNamed(services, "freedvtnc2_" \o interfaces[i].name) # {}
              /\ \A j \in ServicesNamed(services, "freedvtnc2_" \o interfaces[i].name) :
                    services[j].depends_on = <<"rigctld">>
        /\ \A i \in FreeDVWithPtt(interfaces, "vox") :
              /\ ServicesNamed(services, "freedvtnc2_" \o interfaces[i].name) # {}
              /\ \A j \in ServicesNamed(services, "freedvtnc2_" \o interfaces[i].name) :
                    services[j].depends_on = <<>>

\* Two enabled FreeDV interfaces with PTT type rigctld and one with vox:
\* one rigctld service, which the first two depend on
C22_Witness ==
    /\ starter.pc = "built"
    /\ Cardinality(FreeDVWithPtt(interfaces, "rigctld")) = 2
    /\ Cardinality(FreeDVWithPtt(interfaces, "vox")) = 1
    /\ interfaces[3].ptt = "vox"
    /\ NamesOf(services)
          = <<"rigctld", "freedvtnc2_vhf", "freedvtnc2_hf", "freedvtnc2_ht", "rnsd">>
    /\ services[2].depends_on = <<"rigctld">>
    /\ services[4].depends_on = <<>>

(***************************************************************************)
(* `rnm start` on a host where PID_FILE may be left over from an earlier   *)
(* instance and other processes hold some of the pids                      *)
(***************************************************************************)
\* What an earlier instance, a crash or an editor can have left in PID_FILE
LeftOverFiles ==
    {NoFile} \cup {File(str(pid)) : pid \in Pids}
        \cup {File(<<>>), File(<<"x">>), File(<<"1", "x">>), File(<<" ", "2", "\n">>)}

InitPid ==
    /\ services = Single
    /\ config = NeverConfig
    /\ running = FALSE
    /\ order = <<>>
    /\ processes = <<>>
    /\ procs = [n \in Names |-> <<>>]
    /\ starter = [pc |-> "idle", ordered |-> <<>>, idx |-> 0]
    /\ stopper = [pc |-> "idle", names |-> <<>>, idx |-> 0, k |-> 0]
    /\ health = [pc |-> "none", pos |-> 0]
    /\ now = T0
    /\ emitted = <<>>
    /\ callbacks = <<>>
    /\ delivered = <<>>
    /\ status = <<>>
    /\ interfaces = <<>>
    /\ headless = NotHeadless
    /\ pid_file \in LeftOverFiles
    /\ instances \in [Pids -> {NotStarted, Other}]

NextPid ==
    \/ NextInstances
    \/ \E pid \in Pids : reused(pid) /\ SupervisorUntouched

SpecPid == InitPid /\ [][NextPid]_vars

\* PID_FILE holds an integer
HoldsInteger(file) == file.exists /\ int(strip(file.text)) # -1

\* The rnm instance that wrote PID_FILE is alive
WriterAlive(file, inst) ==
    \E pid \in Pids :
        /\ inst[pid].pc = "supervising"
        /\ inst[pid].mode = "headless"
        /\ file = File(str(pid))

\* PID_FILE is stale: it exists and the instance that wrote it is gone
Stale(file, inst) == file.exists /\ ~WriterAlive(file, inst)

\* The start command of pid reads PID_FILE in this step
StartStep(pid) ==
    instances[pid].pc = "none" /\ instances'[pid].pc \in {"refused", "loading"}

(***************************************************************************)
(* C23: a `start` is refused (read_pid reports a running instance) only    *)
(* when PID_FILE exists, holds an integer and a process with that id is    *)
(* alive; and when PID_FILE is missing, holds no integer or is stale (the  *)
(* instance that wrote it no longer exists) read_pid yields None and the   *)
(* start is not refused.                                                   *)
(***************************************************************************)
C23_StalePidFileNeverBlocks ==
    [][\A pid \in Pids :
          StartStep(pid) =>
              /\ instances'[pid].pc = "refused" =>
                    /\ HoldsInteger(pid_file)
                    /\ ProcessExists(instances', int(strip(pid_file.text)))
              /\ (~pid_file.exists \/ ~HoldsInteger(pid_file)
                      \/ Stale(pid_file, instances)) =>
                    instances'[pid].pc = "loading"]_vars

(***************************************************************************)
(* C24: a service in state stopped or failed holds no process handle       *)
(* (ps.process is None), and get_status reports no pid for it.             *)
(***************************************************************************)
C24_HandleOnlyWhileActive ==
    \A n \in DOMAIN processes :
        processes[n].state \in {"stopped", "failed"} =>
            /\ processes[n].process = 0
            /\ get_status(processes)[n].pid = 0

\* The services whose spawn (create_subprocess_exec in _start_service) is in
\* flight: the one start_services launches and those their watchers relaunch
SpawnsInFlight ==
    {n \in DOMAIN processes :
        \/ StarterLaunching(n)
        \/ \E k \in 1..Len(procs[n]) : procs[n][k].watch = "spawn"}

(***************************************************************************)
(* C25: at most one spawn is in flight at any time, and at most one        *)
(* service is in state starting.                                           *)
(***************************************************************************)
C25_OneLaunchAtATime ==
    /\ Cardinality(SpawnsInFlight) <= 1
    /\ Cardinality({n \in DOMAIN processes : processes[n].state = "starting"}) <= 1

(***************************************************************************)
(* C26: under restart policy "never", when the watcher of a service        *)
(* handles an exit while the supervisor is running, the service becomes    *)
(* failed, the exit event with the return code is the only event emitted,  *)
(* restart_count and last_restart keep their values and no watcher is left *)
(* to relaunch it; the service is never relaunched: it never gets a        *)
(* second process, and once settled it stays so.                           *)
(***************************************************************************)
C26_NeverPolicy ==
    [][config.restart_policy = "never" =>
          \A n \in Names :
              /\ \A k \in 1..Len(procs[n]) :
                    (running /\ ExitHandled(n, k)) =>
                        /\ processes'[n].state = "failed"
                        /\ emitted' = <<Ev("exit", n, procs[n][k].returncode)>>
                        /\ processes'[n].restart_count = processes[n].restart_count
                        /\ processes'[n].last_restart = processes[n].last_restart
                        /\ Settled(n)'
              /\ Len(procs'[n]) <= 1
              /\ Settled(n) => Settled(n)']_vars

\* The process of a exited with code 1 and its watcher has just handled it
C26_Witness ==
    /\ config.restart_policy = "never"
    /\ running
    /\ services = Single
    /\ Settled("a")
    /\ emitted = <<Ev("exit", "a", 1)>>
    /\ processes["a"].restart_count = 0
    /\ processes["a"].last_restart = 0

(***************************************************************************)
(* C27: with max_restarts = 0 under policy "always", when the watcher of a *)
(* service handles an exit while the supervisor is running, whatever the   *)
(* return code and the value of restart_count, a relaunch is scheduled,    *)
(* and the restart delay ends in the relaunch if the supervisor is still   *)
(* running; no max_restarts event is ever emitted.                         *)
(***************************************************************************)
C27_NoLimitAtZero ==
    [][(config.max_restarts = 0 /\ config.restart_policy = "always") =>
          /\ \A n \in Names : \A k \in 1..Len(procs[n]) :
                /\ (running /\ ExitHandled(n, k)) =>
                      /\ RelaunchScheduled(n)'
                      /\ procs'[n][k].watch = "delay"
                /\ (running /\ procs[n][k].watch = "delay"
                        /\ procs'[n][k].watch # "delay") =>
                      /\ processes'[n].state = "starting"
                      /\ procs'[n][k].watch = "spawn"
          /\ \A n \in Names : ~HasEvent(emitted', "max_restarts", n)]_vars

\* The third process of a has exited with code 0 and its relaunch is
\* scheduled, restart_count being 3
C27_Witness ==
    /\ config.max_restarts = 0
    /\ config.restart_policy = "always"
    /\ running
    /\ services = Single
    /\ Len(procs["a"]) = MaxRelaunches + 1
    /\ RelaunchScheduled("a")
    /\ processes["a"].restart_count = MaxRelaunches + 1
    /\ emitted = <<Ev("exit", "a", 0)>>

(***************************************************************************)
(* The TUI: start_services, stop_all, then start_services again            *)
(* (action_restart_all, or action_stop_all followed by action_start_all).  *)
(* A watcher holds the ProcessState it was created for, and processes      *)
(* holds the current one only, so the second start is taken once every     *)
(* watcher of the first run has returned, but for watchers of the first    *)
(* service that sleep the restart delay: the second start_services         *)
(* replaces the ProcessState of that service in the turn in which it sets  *)
(* running.                                                                *)
(***************************************************************************)
InitRestart ==
    /\ \/ services = Single /\ config \in ProcessConfigs
       \/ services = Pair /\ config = NeverConfig
    /\ InitRest

\* self.run_worker(self._run_supervisor): start_services once more
StartServicesAgain ==
    /\ ~running
    /\ starter.pc = "done"
    /\ stopper.pc = "done"
    /\ \A n \in Names : \A k \in 1..Len(procs[n]) :
          \/ procs[n][k].watch = "done"
          \/ /\ procs[n][k].watch = "delay"
             /\ n = dependency_sort(services)[1].name
    /\ running' = TRUE
    /\ Launch(dependency_sort(services), 1)
    /\ UNCHANGED <<services, config, procs, stopper, now, health>>
    /\ Deliver
    /\ status' = <<>>
    /\ UNCHANGED <<pid_file, instances, interfaces, headless>>

NextRestart ==
    \/ Next
    \/ StartServicesAgain

SpecRestart == InitRestart /\ [][NextRestart]_vars

\* Watcher k of n sleeps a restart delay during which stop_all was invoked.
\* A watcher increments restart_count before it sleeps, and only stop_all
\* followed by start_services puts a ProcessState with restart_count 0 in
\* place while it sleeps; while the supervisor is stopped the flag tells.
StoppedDuringDelay(n, k) ==
    /\ procs[n][k].watch = "delay"
    /\ stopper.pc # "idle"
    /\ ~running \/ processes[n].restart_count = 0

(***************************************************************************)
(* C28: the restart delay of a watcher never ends before restart_delay has *)
(* passed since it handled the exit, and a watcher during whose delay      *)
(* stop_all was invoked does not relaunch the service: its delay ends with *)
(* the watcher returning and the service still failed.                     *)
(***************************************************************************)
C28_StopCancelsRelaunch ==
    [][\A n \in Names : \A k \in 1..Len(procs[n]) :
          (procs[n][k].watch = "delay" /\ procs'[n][k].watch # "delay") =>
              /\ now >= procs[n][k].wake
              /\ StoppedDuringDelay(n, k) =>
                    /\ procs'[n][k].watch = "done"
                    /\ processes'[n].state = processes[n].state]_vars

\* restart_count or last_restart of n is assigned a new value in this step
BookkeepingChanged(n) ==
    \/ processes'[n].restart_count # processes[n].restart_count
    \/ processes'[n].last_restart # processes[n].last_restart

\* The watcher of process k of n relaunches n in this step: failed -> starting
RelaunchStep(n, k) ==
    /\ procs[n][k].watch = "delay"
    /\ procs'[n][k].watch = "spawn"

\* The watcher of process k of n decides in this step to relaunch n
RelaunchDecided(n, k) ==
    /\ ExitHandled(n, k)
    /\ procs'[n][k].watch = "delay"

(***************************************************************************)
(* C29 as stated: restart_count and last_restart of a service change       *)
(* exactly in the steps in which the service is relaunched (failed ->      *)
(* starting).                                                              *)
(***************************************************************************)
C29_CountedAtRelaunch ==
    [][\A n \in (DOMAIN processes) \cap (DOMAIN processes') :
          /\ BookkeepingChanged(n) => \E k \in 1..Len(procs[n]) : RelaunchStep(n, k)
          /\ \A k \in 1..Len(procs[n]) :
                RelaunchStep(n, k) =>
                    /\ processes'[n].restart_count = processes[n].restart_count + 1
                    /\ processes'[n].last_restart = now]_vars

(***************************************************************************)
(* C29: restart_count is incremented (after the reset to 0 if the window   *)
(* has elapsed) and last_restart set to the current time in the step in    *)
(* which the watcher decides to relaunch, before the restart delay; the    *)
(* relaunch itself (failed -> starting) leaves both as they are; nothing   *)
(* else changes them but the reset of restart_count when the limit is      *)
(* tested and start_services, which begins again at 0.                     *)
(***************************************************************************)
C29_CountedAtDecision ==
    [][\A n \in (DOMAIN processes) \cap (DOMAIN processes') :
          /\ \A k \in 1..Len(procs[n]) :
                /\ RelaunchDecided(n, k) =>
                      /\ processes'[n].restart_count
                            = (IF WindowElapsed(n) THEN 0
                               ELSE processes[n].restart_count) + 1
                      /\ processes'[n].last_restart = now
                /\ RelaunchStep(n, k) => ~BookkeepingChanged(n)
          /\ BookkeepingChanged(n) =>
                \/ \E k \in 1..Len(procs[n]) :
                      /\ running
                      /\ ExitHandled(n, k)
                      /\ \/ RelaunchDecided(n, k)
                         \/ /\ WindowElapsed(n)
                            /\ processes'[n].restart_count = 0
                            /\ processes'[n].last_restart = processes[n].last_restart
                \/ /\ StarterLaunching(n)'
                   /\ processes'[n].restart_count = 0
                   /\ processes'[n].last_restart = 0]_vars

\* The second process of a has exited and its relaunch is decided and not
\* yet made: restart_count is 2 after one relaunch
C29_Witness ==
    /\ running
    /\ services = Single
    /\ RelaunchScheduled("a")
    /\ Len(procs["a"]) = 2
    /\ processes["a"].restart_count = 2
    /\ processes["a"].last_restart = now

\* An unhealthy or health_error event for n is emitted in this step
HealthEvent(n) ==
    HasEvent(emitted', "unhealthy", n) \/ HasEvent(emitted', "health_error", n)

\* The health loop invokes a check in this step
CheckInvoked ==
    /\ health'.pc = "check"
    /\ health' # health

\* start_services has launched every descriptor
AllLaunched ==
    \/ starter.pc = "done"
    \/ starter.pc = "sleep" /\ starter.idx = Len(starter.ordered)

(***************************************************************************)
(* C30: a health check is invoked only once start_services has launched    *)
(* every descriptor, by a health loop that has slept the grace period, and *)
(* only for a service that is running and has a health check; a service    *)
(* gets an unhealthy or health_error event only while it is running and    *)
(* has a health check.                                                     *)
(***************************************************************************)
C30_EventsOnlyWhileRunning ==
    [][/\ CheckInvoked =>
             /\ AllLaunched
             /\ health.pc \in {"grace", "sleep", "check"}
             /\ processes'[order[health'.pos]].state = "running"
             /\ processes'[order[health'.pos]].service.health_check
       /\ \A n \in Names :
             HealthEvent(n) =>
                 /\ processes'[n].state = "running"
                 /\ processes'[n].service.health_check]_vars

\* The live OS processes of service n
LiveProcesses(n) == {k \in 1..Len(procs[n]) : Alive(procs[n][k])}

\* The exit watchers of service n that have not returned
ActiveWatchers(n) == {k \in 1..Len(procs[n]) : procs[n][k].watch # "done"}

(***************************************************************************)
(* C31: every service name has at most one live OS process and at most one *)
(* exit watcher at any time.                                               *)
(***************************************************************************)
C31_OneProcessPerService ==
    \A n \in Names :
        /\ Cardinality(LiveProcesses(n)) <= 1
        /\ Cardinality(ActiveWatchers(n)) <= 1

\* stop_all has marked the supervisor inactive
Inactive == ~running /\ stopper.pc # "idle"

(***************************************************************************)
(* C32: while the supervisor is inactive after stop_all, no step spawns a  *)
(* service process and no step begins a launch: no service gets a new      *)
(* process, none becomes starting, and start_services launches no further  *)
(* descriptor.                                                             *)
(***************************************************************************)
C32_NoSpawnWhileInactive ==
    [][(Inactive /\ Inactive') =>
          /\ \A n \in Names : Len(procs'[n]) = Len(procs[n])
          /\ \A n \in DOMAIN processes' :
                processes'[n].state = "starting" =>
                    (n \in DOMAIN processes /\ processes[n].state = "starting")
          /\ starter'.idx = starter.idx]_vars

(***************************************************************************)
(* C33: with max_restarts = N > 0 the restart_count of every service is    *)
(* between 0 and N in every reachable state.                               *)
(***************************************************************************)
C33_CountWithinLimit ==
    config.max_restarts > 0 =>
        \A n \in DOMAIN processes :
            /\ 0 <= processes[n].restart_count
            /\ processes[n].restart_count <= config.max_restarts

\* The limit of 2 is used up: the third exit of a within the window has
\* been refused and a is left failed
C33_Witness ==
    /\ config.max_restarts = 2
    /\ services = Single
    /\ Settled("a")
    /\ processes["a"].restart_count = 2
    /\ HasEvent(emitted, "max_restarts", "a")

(***************************************************************************)
(* One service under policy "always" with a limit, whose process exits     *)
(* after every launch, for ever.  So that the run has no end in a finite   *)
(* model, the record of the process that exited is reused for the one that *)
(* replaces it, and time is kept relative to the current instant: a tick   *)
(* moves last_restart and the end of the delay one unit into the past,     *)
(* last_restart no further than where the window has elapsed.  Every       *)
(* launch succeeds, and stop_all is not called.                            *)
(***************************************************************************)
LoopConfigs ==
    [restart_policy : {"always"},
     restart_delay : {0, 1},
     max_restarts : {1, 2},
     restart_window : {0, Horizon}]

InitLoop ==
    /\ services = Single
    /\ config \in LoopConfigs
    /\ InitRest

\* time.time() advances by one
LoopTick ==
    /\ starter.pc = "done"
    /\ processes' =
          [n \in DOMAIN processes |->
              [processes[n] EXCEPT !.last_restart =
                  IF @ > now - config.restart_window - 1 THEN @ - 1 ELSE @]]
    /\ procs' =
          [n \in DOMAIN procs |->
              [k \in 1..Len(procs[n]) |->
                  [procs[n][k] EXCEPT !.wake = IF @ > now THEN @ - 1 ELSE @]]]
    /\ emitted' = <<>>
    /\ UNCHANGED <<services, config, running, order, starter, stopper, health,
                   now>>
    /\ Deliver
    /\ status' = <<>>
    /\ UNCHANGED <<pid_file, instances, interfaces, headless>>

\* The spawn awaited by the watcher's _start_service returns
LoopRestartSpawned(n, k) ==
    /\ procs[n][k].watch = "spawn"
    /\ processes' = [processes EXCEPT ![n].state = "running"]
    /\ procs' = [procs EXCEPT ![n][k] = NewProcess]
    /\ emitted' = <<Ev("state_change", n, "running")>>
    /\ UNCHANGED <<services, config, running, order, starter, stopper, health,
                   now>>
    /\ Deliver
    /\ status' = <<>>
    /\ UNCHANGED <<pid_file, instances, interfaces, headless>>

LoopExit == \E n \in Names : \E k \in 1..Len(procs[n]) : \E rc \in {0, 1} : ProcExit(n, k, rc)

LoopWatchExit == \E n \in Names : \E k \in 1..Len(procs[n]) : WatchExit(n, k)

LoopRestartWake == \E n \in Names : \E k \in 1..Len(procs[n]) : RestartWake(n, k)

LoopSpawned == \E n \in Names : \E k \in 1..Len(procs[n]) : LoopRestartSpawned(n, k)

NextLoop ==
    \/ StartServices
    \/ StarterSpawned(TRUE)
    \/ StarterWake
    \/ LoopExit
    \/ LoopTick
    \/ LoopWatchExit
    \/ LoopRestartWake
    \/ LoopSpawned

\* The event loop runs every task that is ready, the clock advances, and the
\* process exits after every launch
SpecLoop ==
    /\ InitLoop
    /\ [][NextLoop]_vars
    /\ WF_vars(StartServices)
    /\ WF_vars(StarterSpawned(TRUE))
    /\ WF_vars(StarterWake)
    /\ WF_vars(LoopExit)
    /\ WF_vars(LoopTick)
    /\ WF_vars(LoopWatchExit)
    /\ WF_vars(LoopRestartWake)
    /\ WF_vars(LoopSpawned)

\* An exit of a restarted service is about to be handled after the restart
\* window has elapsed
HandledAfterWindow ==
    \E n \in DOMAIN processes : \E k \in 1..Len(procs[n]) :
        /\ procs[n][k].watch = "wait"
        /\ ~Alive(procs[n][k])
        /\ processes[n].restart_count > 0
        /\ WindowElapsed(n)

\* Service a was given up for good
Abandoned == Launched("a") /\ Settled("a")

(***************************************************************************)
(* C34 as stated: under policy "always" with max_restarts = N > 0,         *)
(* whatever restart_delay and restart_window are, a service that exits     *)
(* after every launch gets a max_restarts event and is failed with no      *)
(* relaunch pending from some point on.                                    *)
(***************************************************************************)
C34_AlwaysAbandoned ==
    /\ <>HasEvent(emitted, "max_restarts", "a")
    /\ <>[]Abandoned

(***************************************************************************)
(* C34: under policy "always" with max_restarts = N > 0, a service that    *)
(* exits after every launch, each exit being handled within restart_window *)
(* of its last restart, gets a max_restarts event and is failed with no    *)
(* relaunch pending from some point on; restart_count never exceeds N.     *)
(***************************************************************************)
C34_AbandonedWithinWindow ==
    \/ <>HandledAfterWindow
    \/ /\ <>HasEvent(emitted, "max_restarts", "a")
       /\ <>[]Abandoned

\* The limit is reached and the exit that follows has just been refused
C34_Witness ==
    /\ Abandoned
    /\ processes["a"].restart_count = config.max_restarts
    /\ emitted = <<Ev("exit", "a", 1), Ev("max_restarts", "a", 0)>>

(***************************************************************************)
(* Spawn failures and the restart policy                                   *)
(***************************************************************************)
\* n is Failed and its ProcessState never held a process: the spawn awaited
\* by start_services raised
SpawnFailed(n) ==
    /\ Launched(n)
    /\ processes[n].state = "failed"
    /\ processes[n].process = 0

\* start_services itself enters _start_service for n in this step
LaunchedByStarter(n) ==
    /\ starter' # starter
    /\ starter'.pc = "spawn"
    /\ starter'.ordered[starter'.idx].name = n

(***************************************************************************)
(* C35: a service that is Failed because its spawn failed is never         *)
(* relaunched automatically, whatever the policy, and no max_restarts      *)
(* event is emitted for it: unless start_services launches it again, it    *)
(* stays Failed, gets no process and no max_restarts event.                *)
(***************************************************************************)
C35_SpawnFailureIsFinal ==
    [][\A n \in Names :
          (SpawnFailed(n) /\ ~LaunchedByStarter(n)) =>
              /\ SpawnFailed(n)'
              /\ Len(procs'[n]) = Len(procs[n])
              /\ ~HasEvent(emitted', "max_restarts", n)]_vars

(***************************************************************************)
(* C36: the list build_services returns is a valid resolver input already  *)
(* in dependency order: the names are pairwise distinct, every depends_on  *)
(* entry names a service of the list, the dependency graph has no cycle,   *)
(* and every service stands after all the services it depends on.          *)
(***************************************************************************)
C36_BuiltListValidAndOrdered ==
    starter.pc = "built" =>
        /\ UniqueNames(services)
        /\ ~HasDangling(services)
        /\ ~HasCycle(services)
        /\ \A n \in DeclaredNames(services) :
               AfterItsDeps(services, NamesOf(services), n)

\* rigctld, a FreeDV TNC that depends on it, a direwolf TNC and rnsd
C36_Witness ==
    /\ starter.pc = "built"
    /\ Len(services) = 4
    /\ services[1].name = "rigctld"
    /\ \E j \in 2..3 : services[j].depends_on = <<"rigctld">>
    /\ Len(services[4].depends_on) = 2

(***************************************************************************)
(* The state an observer reconstructs from the events                      *)
(***************************************************************************)
\* Positions in evs of the events about n that carry a state
StateEvents(evs, n) ==
    {i \in 1..Len(evs) : evs[i][2] = n /\ evs[i][1] \in {"state_change", "exit", "error"}}

\* What the last such event of a turn tells the observer about n: the detail
\* of a state_change, "failed" for exit and error, "none" when the turn
\* emitted nothing that carries a state of n
Announced(evs, n) ==
    IF StateEvents(evs, n) = {} THEN "none"
    ELSE LET i == CHOOSE j \in StateEvents(evs, n) :
                      \A k \in StateEvents(evs, n) : k <= j
         IN  IF evs[i][1] = "state_change" THEN evs[i][3] ELSE "failed"

(***************************************************************************)
(* C37: every change of a service's state is announced in the same turn    *)
(* (state_change with the new state, exit or error for a move to Failed),  *)
(* and a turn announces nothing else: the last state the events of a turn  *)
(* carry for a service is the state the service has at the end of the      *)
(* turn, so the state reconstructed from the event stream equals the       *)
(* actual state at every suspension point.                                 *)
(***************************************************************************)
C37_ObserverTracksState ==
    [][\A n \in DOMAIN processes' :
          IF n \in DOMAIN processes /\ processes'[n].state = processes[n].state
          THEN Announced(emitted', n) \in {"none", processes'[n].state}
          ELSE Announced(emitted', n) = processes'[n].state]_vars

\* b has been stopped and announced as such while a, which exited on its own
\* before, is still the Failed the exit event announced
C37_Witness ==
    /\ services = Pair
    /\ Launched("a") /\ Launched("b")
    /\ processes["a"].state = "failed"
    /\ processes["b"].state = "stopped"
    /\ Announced(emitted, "b") = "stopped"

(***************************************************************************)
(* C38: for every descriptor list with unique names, with or without a     *)
(* cycle or a dangling dependency name, _dependency_sort returns a         *)
(* permutation of its input: the result is as long as the input, each      *)
(* input descriptor stands in it exactly once and nothing else does.       *)
(***************************************************************************)
C38_SortIsPermutation ==
    starter.pc = "sorted" =>
        /\ Len(starter.ordered) = Len(services)
        /\ \A i \in 1..Len(services) :
               Cardinality({j \in 1..Len(starter.ordered) :
                               starter.ordered[j] = services[i]}) = 1
        /\ \A j \in 1..Len(starter.ordered) :
               \E i \in 1..Len(services) : services[i] = starter.ordered[j]

\* A list with both a cycle and a dangling name has been sorted
C38_Witness ==
    /\ starter.pc = "sorted"
    /\ Len(services) >= 2
    /\ HasCycle(services)
    /\ HasDangling(services)
    /\ Len(starter.ordered) = Len(services)

(***************************************************************************)
(* run_headless: the signal handlers, the PID file, start_services, the    *)
(* wait for shutdown_event, stop_all and the finally clause                *)
(***************************************************************************)
HeadlessPid == 1     \* os.getpid() of the headless instance
MaxSignals == 2      \* SIGTERM and SIGINT deliveries the model follows

\* write_pid_file: PID_FILE holds str(os.getpid())
write_pid_file(pid) == File(str(pid))

\* remove_pid_file: PID_FILE.unlink(missing_ok=True)
remove_pid_file(file) == NoFile

\* A handler that never sets shutdown_event
handle_signal_ignored(h) == [h EXCEPT !.signals = @ + 1]

\* handle_signal: shutdown_event.set(), or nothing if it is set already
handle_signal(h) == [h EXCEPT !.shutdown_event = TRUE, !.signals = @ + 1]

\* The end of run_headless in the turn in which stop_all returns: the
\* finally clause removes the PID file
Finally(returned) ==
    IF returned
    THEN /\ pid_file' = remove_pid_file(pid_file)
         /\ headless' = [headless EXCEPT !.pc = "finished"]
    ELSE UNCHANGED <<pid_file, headless>>

\* run_headless up to the first suspension: the handlers are installed, the
\* PID file is written and start_services runs its first turn, or
\* _write_configs raises and the finally clause ends run_headless.
RunHeadless ==
    /\ headless.pc = "none"
    /\ \/ /\ StartServicesCore
          /\ pid_file' = write_pid_file(HeadlessPid)
          /\ headless' = [headless EXCEPT !.pc = "run"]
       \/ /\ starter.pc = "idle"
          /\ running' = TRUE
          /\ starter' = [starter EXCEPT !.pc = "raised"]
          /\ pid_file' = remove_pid_file(write_pid_file(HeadlessPid))
          /\ headless' = [headless EXCEPT !.pc = "raised"]
          /\ emitted' = <<>>
          /\ UNCHANGED <<services, config, order, processes, procs, stopper,
                         health, now>>
          /\ Deliver
          /\ status' = <<>>
    /\ UNCHANGED <<instances, interfaces>>

\* The event loop calls handle_signal for a SIGTERM or SIGINT
HandleSignal ==
    /\ headless.pc = "run"
    /\ headless.signals < MaxSignals
    /\ headless' = handle_signal(headless)
    /\ emitted' = <<>>
    /\ UNCHANGED <<services, config, running, order, processes, procs, starter,
                   stopper, health, now>>
    /\ Deliver
    /\ status' = <<>>
    /\ UNCHANGED <<pid_file, instances, interfaces>>

\* The spawn awaited by start_services returns or raises
HeadlessSpawned ==
    /\ headless.pc = "run"
    /\ \E ok \in BOOLEAN : StarterSpawned(ok)

\* The pacing sleep is over. After the last service start_services returns;
\* if shutdown_event is set, shutdown_event.wait() returns without
\* suspending and stop_all runs its first turn at once.
HeadlessStarterWake ==
    /\ headless.pc = "run"
    /\ starter.pc = "sleep"
    /\ IF starter.idx = Len(starter.ordered) /\ headless.shutdown_event
       THEN /\ starter' = [starter EXCEPT !.pc = "done"]
            /\ running' = FALSE
            /\ health' = health_cancel(HealthCreated)
            /\ LET r == stop_from(processes, procs, Reverse(order), 1, <<>>)
               IN  /\ processes' = r.P
                   /\ procs' = r.PR
                   /\ emitted' = r.ev
                   /\ stopper' = r.task
            /\ UNCHANGED <<services, config, order, now>>
            /\ Deliver
            /\ status' = <<>>
            /\ Finally(stopper'.pc = "done")
       ELSE /\ StarterWakeCore
            /\ UNCHANGED <<pid_file, headless>>
    /\ UNCHANGED <<instances, interfaces>>

\* shutdown_event.wait() returns after start_services has returned:
\* first turn of stop_all
HeadlessStop ==
    /\ headless.pc = "run"
    /\ headless.shutdown_event
    /\ starter.pc = "done"
    /\ StopAllCore
    /\ Finally(stopper'.pc = "done")
    /\ UNCHANGED <<instances, interfaces>>

\* The process stop_all awaits has exited
HeadlessStopWaitDone ==
    /\ headless.pc = "run"
    /\ StopWaitDoneCore
    /\ Finally(stopper'.pc = "done")
    /\ UNCHANGED <<instances, interfaces>>

\* terminate() raises in the first turn of stop_all (the kill system call
\* fails): the service is announced as stopping, no signal is sent, the
\* exception leaves stop_all and the finally clause ends run_headless.
HeadlessStopRaises ==
    /\ headless.pc = "run"
    /\ headless.shutdown_event
    /\ starter.pc = "done"
    /\ running
    /\ stopper.pc = "idle"
    /\ running' = FALSE
    /\ health' = health_cancel(health)
    /\ LET r == stop_from(processes, procs, Reverse(order), 1, <<>>)
       IN  /\ r.task.pc = "wait"
           /\ processes' = r.P
           /\ emitted' = r.ev
           /\ stopper' = [r.task EXCEPT !.pc = "raised"]
    /\ pid_file' = remove_pid_file(pid_file)
    /\ headless' = [headless EXCEPT !.pc = "raised"]
    /\ UNCHANGED <<services, config, order, procs, starter, now>>
    /\ Deliver
    /\ status' = <<>>
    /\ UNCHANGED <<instances, interfaces>>

\* The other tasks of the supervisor and the OS, while run_headless runs
HeadlessBackground ==
    /\ headless.pc = "run"
    /\ \/ \E n \in Names : \E k \in 1..Len(procs[n]) :
             \E rc \in {-15, -9, 0, 1} : ProcExit(n, k, rc)
       \/ Tick
       \/ \E n \in Names : \E k \in 1..Len(procs[n]) : WatchExit(n, k)
       \/ \E n \in Names : \E k \in 1..Len(procs[n]) : RestartWake(n, k)
       \/ \E n \in Names : \E k \in 1..Len(procs[n]) :
             \E ok \in BOOLEAN : RestartSpawned(n, k, ok)
       \/ HealthWake
       \/ \E res \in {"healthy", "unhealthy", "raises"} : HealthResult(res)

HeadlessStopTimeout == headless.pc = "run" /\ StopTimeout

HeadlessKilledExit == headless.pc = "run" /\ KilledExit

NextSignal ==
    \/ RunHeadless
    \/ HandleSignal
    \/ HeadlessSpawned
    \/ HeadlessStarterWake
    \/ HeadlessBackground
    \/ HeadlessStop
    \/ HeadlessStopWaitDone
    \/ HeadlessStopTimeout
    \/ HeadlessStopRaises

\* The event loop resumes run_headless and the tasks it awaits; the grace
\* period of stop_all runs out; a process sent SIGKILL exits.
SpecSignal ==
    /\ InitFair
    /\ [][NextSignal]_vars
    /\ WF_vars(HeadlessSpawned)
    /\ WF_vars(HeadlessStarterWake)
    /\ WF_vars(HeadlessStop)
    /\ WF_vars(HeadlessStopWaitDone)
    /\ WF_vars(HeadlessStopTimeout)
    /\ WF_vars(HeadlessKilledExit)

\* A signal has been handled and run_headless has not ended
Signalled == headless.pc = "run" /\ headless.signals > 0

\* run_headless has ended after a stop_all and the PID file is gone
StoppedAndRemoved ==
    /\ headless.pc \in {"finished", "raised"}
    /\ stopper.pc # "idle"
    /\ ~pid_file.exists

\* stop_all has been called only after start_services returned and a signal
\* was handled; the PID file exists while run_headless runs and is gone
\* once it has ended, by return or by an exception
HeadlessOrder ==
    /\ stopper.pc # "idle" => (starter.pc = "done" /\ headless.shutdown_event)
    /\ headless.pc = "run" => pid_file = write_pid_file(HeadlessPid)
    /\ headless.pc \in {"finished", "raised"} => ~pid_file.exists
    /\ headless.pc = "finished" => stopper.pc = "done"

\* stop_all is called at most once, and a signal handled when
\* shutdown_event is set changes nothing
OneShutdown ==
    /\ stopper.pc # "idle" => (stopper'.pc # "idle" /\ ~running')
    /\ (headless.shutdown_event /\ headless'.signals # headless.signals) =>
          /\ UNCHANGED <<running, processes, procs, starter, stopper, health,
                         pid_file>>
          /\ headless'.pc = headless.pc
          /\ headless'.shutdown_event

(***************************************************************************)
(* C39: in headless mode a signal handled at any time after the handlers   *)
(* are installed, also while start_services is launching, leads to one     *)
(* stop_all, called only after start_services has returned, and then to    *)
(* the removal of the PID file; a repeated signal starts no second         *)
(* shutdown; the PID file is removed also when start_services or stop_all  *)
(* raises.                                                                 *)
(***************************************************************************)
C39_SignalStopsOnce ==
    /\ []HeadlessOrder
    /\ [][OneShutdown]_vars
    /\ Signalled ~> StoppedAndRemoved

\* Two signals were handled, the second one while the pair was stopped;
\* both services are stopped and the PID file is gone
C39_Witness ==
    /\ services = Pair
    /\ headless.pc = "finished"
    /\ headless.signals = 2
    /\ ~pid_file.exists
    /\ \A n \in {"a", "b"} : Launched(n) /\ processes[n].state = "stopped"

====
